---- MODULE Spec2Model ----
(***************************************************************************)
(* A model of the GameCube filesystem engine of gcedit                     *)
(* (src/gcedit/ext/gcutil.py): the on-disk table, the in-memory tree, the  *)
(* bulk copy engine and GCFS.write.                                        *)
(*                                                                         *)
(* Conventions.  Python lists are 0-based and TLA+ sequences 1-based: the  *)
(* operators keep the Python index i and read element i + 1.  The image    *)
(* is a function from byte offsets to byte values (0..255) plus its        *)
(* length; only the header fields and the region from the filesystem       *)
(* start on are kept, every other byte reads as 0.  A name is a sequence   *)
(* of code points.  A tree is a set of nodes, each with the id of its      *)
(* parent directory (0 is the root); ids stand for Python object           *)
(* identity and, within one directory, for list / dict insertion order.    *)
(***************************************************************************)
EXTENDS Integers, Sequences, FiniteSets, TLC

(***************************************************************************)
(* Bounds of the model.                                                    *)
(***************************************************************************)
MaxEdits == 2
MaxFileSize == 8
MaxTemp == 3
MaxPolls == 1
\* settings of gcutil (module attributes meant to be changed by the user)
BLOCK_SIZE == 4

(***************************************************************************)
(* Constants of the program.                                               *)
(***************************************************************************)
MinFsStart == 9280
EntrySize == 12
\* the DVD magic word 0xc2339f3d, as the four bytes at 0x1c
MagicWord == <<194, 51, 159, 61>>
MaxFsStart == 67108864
MaxFstSize == 4194304
MaxEntries == 100000
MaxNameRead == 512
\* decompress: the size the image is brought to
target_size == 1459978240

Min(a, b) == IF a < b THEN a ELSE b
Max(a, b) == IF a > b THEN a ELSE b

SetMax(S) == IF S = {} THEN 0
             ELSE LET x == CHOOSE y \in S : \A z \in S : z <= y IN x

RECURSIVE SortedSeq(_)
\* the elements of a set of integers in ascending order
SortedSeq(S) == IF S = {} THEN << >>
                ELSE LET m == CHOOSE y \in S : \A z \in S : y <= z
                     IN <<m>> \o SortedSeq(S \ {m})

RECURSIVE SumSeq(_)
SumSeq(s) == IF s = << >> THEN 0 ELSE Head(s) + SumSeq(Tail(s))

(***************************************************************************)
(* Names and the codec (CODEC = 'shift-jis').  Only the single-byte part   *)
(* of the codec is modelled: ASCII, the yen sign U+00A5 and the overline   *)
(* U+203E (encoded as 0x5C and 0x7E) and half-width katakana.              *)
(***************************************************************************)
Encodable(c) == (c >= 0 /\ c < 128) \/ c = 165 \/ c = 8254
                \/ (c >= 65377 /\ c <= 65439)

EncodeChar(c) == IF c = 165 THEN 92
                 ELSE IF c = 8254 THEN 126
                 ELSE IF c >= 65377 THEN c - 65216
                 ELSE c

Decodable(b) == b < 128 \/ (b >= 161 /\ b <= 223)

DecodeChar(b) == IF b >= 161 THEN b + 65216 ELSE b

_encode(name) == [k \in 1..Len(name) |-> EncodeChar(name[k])]

_decode(bytes) == [k \in 1..Len(bytes) |-> DecodeChar(bytes[k])]

valid_name(name) ==
    /\ \A k \in 1..Len(name) : name[k] # 0
    /\ \A k \in 1..Len(name) : Encodable(name[k])

\* str.upper() on the code points used here
UpperChar(c) == IF c >= 97 /\ c <= 122 THEN c - 32 ELSE c

sort_key(name) == [k \in 1..Len(name) |-> UpperChar(name[k])]

RECURSIVE StrLess(_, _)
\* Python's < on strings: lexicographic by code point
StrLess(a, b) ==
    IF b = << >> THEN FALSE
    ELSE IF a = << >> THEN TRUE
    ELSE IF Head(a) # Head(b) THEN Head(a) < Head(b)
    ELSE StrLess(Tail(a), Tail(b))

(***************************************************************************)
(* Binary reader / writer primitives.                                      *)
(***************************************************************************)
Byte(d, p) == IF p \in DOMAIN d THEN d[p] ELSE 0

\* read(f, start, size): a read that reaches the end of file is short
read(d, dsize, start, size) ==
    LET n == Max(0, Min(size, dsize - start))
    IN [k \in 1..n |-> Byte(d, start + k - 1)]

RECURSIVE BytesToInt(_)
\* sum(j * 256 ** (size - i - 1))
BytesToInt(bs) == IF bs = << >> THEN 0
                  ELSE BytesToInt(SubSeq(bs, 1, Len(bs) - 1)) * 256 + bs[Len(bs)]

read_num(d, dsize, start, size) == BytesToInt(read(d, dsize, start, size))

\* read(f, start, size, False, b'\0'): the bytes up to the first null byte,
\* the end of file or size bytes
read_until(d, dsize, start, size) ==
    LET stops == {k \in 0..size : \/ k = size
                                  \/ start + k >= dsize
                                  \/ Byte(d, start + k) = 0}
        n == CHOOSE k \in stops : \A j \in stops : k <= j
    IN [k \in 1..n |-> Byte(d, start + k - 1)]

RECURSIVE IntDigits(_)
IntDigits(i) == IF i = 0 THEN << >> ELSE IntDigits(i \div 256) \o <<i % 256>>

\* write(int, f, pos, size): base 256, padded to size, never truncated
IntToBytes(i, size) ==
    LET digits == IntDigits(i)
    IN [k \in 1..Max(size - Len(digits), 0) |-> 0] \o digits

\* write(data, f, pos): bytes written at pos; the file grows to hold them
write_bytes(d, pos, bs) ==
    [p \in DOMAIN d |-> IF p >= pos /\ p < pos + Len(bs)
                        THEN bs[p - pos + 1] ELSE d[p]]

_align_4B(x) == IF x % 4 > 0 THEN ((x \div 4) + 1) * 4 ELSE (x \div 4) * 4

(***************************************************************************)
(* GCFS._init: read the table from the image.  The result carries the      *)
(* attributes assigned so far and the exception raised, if any.            *)
(***************************************************************************)
ReadEntry(d, dsize, entry_offset) ==
    [is_dir    |-> read_num(d, dsize, entry_offset, 1) # 0,
     str_start |-> read_num(d, dsize, entry_offset + 1, 3),
     start     |-> read_num(d, dsize, entry_offset + 4, 4),
     size      |-> read_num(d, dsize, entry_offset + 8, 4)]

\* assigned: how many of fs_start, fst_size, num_entries, str_start, entries,
\* names the call has assigned (in this order) when it ends; the attributes
\* not assigned are given as 0 or << >>
InitResult(err, assigned, fs_start, fst_size, n, str_start, entries, names) ==
    [err |-> err, assigned |-> assigned,
     fs_start |-> fs_start, fst_size |-> fst_size,
     num_entries |-> n, str_start |-> str_start,
     entries |-> entries, names |-> names]

_init(d, dsize) ==
    LET fs_start == read_num(d, dsize, 1060, 4)
        fst_size == read_num(d, dsize, 1064, 4)
        fst_end == fs_start + fst_size
        n == read_num(d, dsize, fs_start + 8, 4)
        str_start == fs_start + n * EntrySize
        entries == [i \in 1..(n - 1) |->
                        ReadEntry(d, dsize, fs_start + i * EntrySize)]
        raw == [i \in 1..(n - 1) |->
                   read_until(d, dsize, str_start + entries[i].str_start,
                              MaxNameRead)]
        \* the entries that fail a check, and the names that do
        bad_entries == {i \in 1..(n - 1) :
                           \/ str_start + entries[i].str_start > fst_end
                           \/ /\ entries[i].is_dir
                              /\ (entries[i].start >= n \/ entries[i].size > n)}
        too_long(i) == Len(raw[i]) = MaxNameRead
        undecodable(i) == \E k \in 1..Len(raw[i]) : ~Decodable(raw[i][k])
        bad_names == {i \in 1..(n - 1) : too_long(i) \/ undecodable(i)}
        first(S) == CHOOSE i \in S : \A j \in S : i <= j
        decoded(m) == [i \in 1..m |-> _decode(raw[i])]
    IN  IF read(d, dsize, 28, 4) # MagicWord
            THEN InitResult("DiskError", 0, 0, 0, 0, 0, << >>, << >>)
        ELSE IF fs_start < MinFsStart \/ fs_start > MaxFsStart
            THEN InitResult("DiskError", 2, fs_start, fst_size, 0, 0, << >>, << >>)
        ELSE IF fst_size > MaxFstSize \/ fst_end > dsize
            THEN InitResult("DiskError", 2, fs_start, fst_size, 0, 0, << >>, << >>)
        ELSE IF n = 0 \/ n > MaxEntries \/ fst_size < n * EntrySize
            THEN InitResult("DiskError", 3, fs_start, fst_size, n, 0, << >>, << >>)
        ELSE IF str_start > fst_end
            THEN InitResult("DiskError", 4, fs_start, fst_size, n, str_start,
                            << >>, << >>)
        ELSE IF bad_entries # {}
            THEN \* self.entries is the list filled so far
                 InitResult("DiskError", 5, fs_start, fst_size, n, str_start,
                            SubSeq(entries, 1, first(bad_entries) - 1), << >>)
        ELSE IF bad_names # {}
            THEN \* self.names is the list filled so far
                 InitResult(IF too_long(first(bad_names)) THEN "DiskError"
                            ELSE "UnicodeDecodeError",
                            6, fs_start, fst_size, n, str_start, entries,
                            decoded(first(bad_names) - 1))
        ELSE InitResult("none", 6, fs_start, fst_size, n, str_start, entries,
                        decoded(n - 1))

(***************************************************************************)
(* The table as GCFS.write commits it to the image.                        *)
(***************************************************************************)
BoolToInt(b) == IF b THEN 1 ELSE 0

\* for data, (pos, size) in zip(entry, args): write(int(data), f, offset + pos, size)
WriteEntry(d, offset, e) ==
    LET d0 == write_bytes(d, offset, IntToBytes(BoolToInt(e.is_dir), 1))
        d1 == write_bytes(d0, offset + 1, IntToBytes(e.str_start, 3))
        d2 == write_bytes(d1, offset + 4, IntToBytes(e.start, 4))
    IN  write_bytes(d2, offset + 8, IntToBytes(e.size, 4))

RECURSIVE WriteEntries(_, _, _)
WriteEntries(d, offset, es) ==
    IF es = << >> THEN d
    ELSE WriteEntries(WriteEntry(d, offset, Head(es)), offset + EntrySize,
                      Tail(es))

RECURSIVE WriteNames(_, _, _)
WriteNames(d, pos, nms) ==
    IF nms = << >> THEN d
    ELSE LET name == _encode(Head(nms))
         IN WriteNames(write_bytes(d, pos, name \o <<0>>),
                       pos + Len(name) + 1, Tail(nms))

WriteTable(d, fs_start, fst_size, num_entries, str_start, es, nms) ==
    LET root == [is_dir |-> TRUE, str_start |-> 0, start |-> 0,
                 size |-> num_entries]
        d0 == write_bytes(d, 1064, IntToBytes(fst_size, 4))
        d1 == WriteEntries(d0, fs_start, <<root>> \o es)
    IN  WriteNames(d1, str_start, nms)

\* f.truncate(size): bytes past the new end are gone, new bytes are zero
Truncate(d, size) == [p \in DOMAIN d |-> IF p >= size THEN 0 ELSE d[p]]

(***************************************************************************)
(* The tree.  A node is [name, dir, parent, ref]; ref is the identifier's  *)
(* second element: an entries index ("idx"), a real path ("path"), a       *)
(* relocation (index, new_start) ("move") or None for a new directory.     *)
(***************************************************************************)
Idx(i) == [t |-> "idx", i |-> i, s |-> 0]
Path(p) == [t |-> "path", i |-> p, s |-> 0]
Move(i, s) == [t |-> "move", i |-> i, s |-> s]
NoRef == [t |-> "none", i |-> 0, s |-> 0]

Node(name, dir, parent, ref) ==
    [name |-> name, dir |-> dir, parent |-> parent, ref |-> ref]

Children(t, d) == {n \in DOMAIN t : t[n].parent = d}
FileNodes(t, d) == {n \in Children(t, d) : ~t[n].dir}
DirNodes(t, d) == {n \in Children(t, d) : t[n].dir}

RECURSIVE Descendants(_, _)
Descendants(t, d) ==
    Children(t, d) \cup UNION {Descendants(t, c) : c \in DirNodes(t, d)}

RECURSIVE bt(_, _, _, _, _, _)
\* the loop of build_tree over entries[start:end]; the node of entry i has
\* id i + 1 and the nodes built so far are in acc
bt(entries, names, i, end, parent, acc) ==
    IF i >= end THEN acc
    ELSE LET e == entries[i + 1]
             name == names[i + 1]
         IN IF e.is_dir
            THEN LET sub == bt(entries, names, i + 1,
                               Min(e.size - 1, Len(entries)), i + 1,
                               acc @@ ((i + 1) :> Node(name, TRUE, parent,
                                                       Idx(i))))
                 IN bt(entries, names, e.size - 1, end, parent, sub)
            ELSE bt(entries, names, i + 1, end, parent,
                    acc @@ ((i + 1) :> Node(name, FALSE, parent, Idx(i))))

build_tree(entries, names) == bt(entries, names, 0, Len(entries), 0, << >>)

\* entries[i] for a Python index: a negative i counts from the end
PyIndex(i, len) == IF i < 0 THEN len + i + 1 ELSE i + 1

RECURSIVE bt_run(_, _, _, _, _)
\* how the loop of build_tree over entries[i:end] ends: "return", "loop"
\* when `while i < end` comes back to an i it has already had in this call
\* (the call then never ends), "RecursionError" when a nested call is made
\* with the start and end of a call that is still running.  seen holds the
\* values i has had in this call, stack the (start, end) of the running calls
bt_run(entries, i, end, seen, stack) ==
    IF i >= end THEN "return"
    ELSE IF i \in seen THEN "loop"
    ELSE LET e == entries[PyIndex(i, Len(entries))]
             frame == <<i + 1, Min(e.size - 1, Len(entries))>>
             sub == IF frame \in stack THEN "RecursionError"
                    ELSE bt_run(entries, frame[1], frame[2], {},
                                stack \cup {frame})
         IN IF ~e.is_dir
            THEN bt_run(entries, i + 1, end, seen \cup {i}, stack)
            ELSE IF sub # "return" THEN sub
            ELSE bt_run(entries, e.size - 1, end, seen \cup {i}, stack)

build_tree_run(entries) ==
    bt_run(entries, 0, Len(entries), {}, {<<0, Len(entries)>>})

RECURSIVE tree_value(_, _)
\* the value Python compares with == : the ordered file list and the dict
\* of child directories
tree_value(t, d) ==
    LET fs == SortedSeq(FileNodes(t, d))
    IN [files |-> [k \in 1..Len(fs) |-> <<t[fs[k]].name, t[fs[k]].ref>>],
        dirs  |-> {<<t[n].name, t[n].ref, tree_value(t, n)>> :
                      n \in DirNodes(t, d)}]

\* GCFS.changed
changed(t, entries, names) ==
    tree_value(t, 0) # tree_value(build_tree(entries, names), 0)

\* tree_size(tree): the number of children, recursively
tree_size(t, d) == Cardinality(Descendants(t, d))

(***************************************************************************)
(* The state.                                                              *)
(***************************************************************************)
VARIABLES
    disk,        \* the bytes of the image file
    dsize,       \* the length of the image file
    rfs,         \* the real filesystem: path id -> [kind, ok, data]
    fs_start, fst_size, num_entries, str_start, entries, names, tree,
                 \* the attributes of the GCFS instance
    edits,       \* number of tree edits made so far
    pc,          \* where the program is: "idle" or a step of write / copy
    w,           \* the local variables of the running write
    c,           \* the local variables of the running copy
    pre,         \* the image and the instance as they were when write began
    out          \* how the last write ended

gcfs == <<fs_start, fst_size, num_entries, str_start, entries, names, tree>>
vars == <<disk, dsize, rfs, fs_start, fst_size, num_entries, str_start,
          entries, names, tree, edits, pc, w, c, pre, out>>

(***************************************************************************)
(* The images the program is started on, the names and the real files      *)
(* the user can pick.                                                      *)
(***************************************************************************)
FsStart == MinFsStart
DiskCap == 96 + 28 * MaxEdits + 2 * MaxFileSize
DiskTop == FsStart + DiskCap
\* the bytes kept around the size that decompress aims at
HighLo == target_size - 16
HighTop == target_size + 32
DiskDom == (28..31) \cup (1060..1067) \cup (FsStart..(DiskTop - 1))
           \cup (HighLo..(HighTop - 1))

NameLowerA == <<97>>
NameUpperA == <<65>>
NameBb == <<66, 98>>
NameYen == <<165>>
\* the names the user types
Names == {NameUpperA, NameYen}

\* real files: 1 and 2 are readable files, 3 cannot be opened, 4 is a
\* directory; the ids after that are free for temporary files
NumSources == 4
SourceIds == 1..NumSources
TempIds == (NumSources + 1)..(NumSources + MaxTemp)
NoFile == [kind |-> "none", ok |-> TRUE, data |-> << >>]
\* a file that is already there before copy or extract runs
Existing == [kind |-> "file", ok |-> TRUE, data |-> <<99>>]
SourceData(p, size) == [k \in 1..size |-> 16 * p + k]
InitRfs ==
    [p \in SourceIds \cup TempIds |->
        IF p = 1 THEN [kind |-> "file", ok |-> TRUE,
                       data |-> SourceData(1, MaxFileSize - 3)]
        ELSE IF p = 2 THEN [kind |-> "file", ok |-> TRUE,
                            data |-> SourceData(2, MaxFileSize)]
        ELSE IF p = 3 THEN [kind |-> "file", ok |-> FALSE,
                            data |-> SourceData(3, 3)]
        ELSE IF p = 4 THEN [kind |-> "dir", ok |-> FALSE, data |-> << >>]
        ELSE NoFile]

isfile(fs, p) == fs[p].kind = "file"
exists(fs, p) == fs[p].kind # "none"
getsize(fs, p) == Len(fs[p].data)

RECURSIVE StrOffsets(_, _)
\* the name offsets of a string table holding the given names in order
StrOffsets(nms, off) ==
    IF nms = << >> THEN << >>
    ELSE <<off>> \o StrOffsets(Tail(nms), off + Len(_encode(Head(nms))) + 1)

StrTableSize(nms) == SumSeq([k \in 1..Len(nms) |-> Len(_encode(nms[k])) + 1])

\* an image holding the given items: a directory item gives parent and next
\* index, a file item its distance from the start of the file data and its
\* size; file k is filled with bytes that identify it
ImgDir(name, parent, next) ==
    [is_dir |-> TRUE, name |-> name, a |-> parent, b |-> next]
ImgFile(name, rel, size) ==
    [is_dir |-> FALSE, name |-> name, a |-> rel, b |-> size]
\* a file item that ends at the given offset of the image
ImgFileTo(name, end, size) ==
    [is_dir |-> FALSE, name |-> name, a |-> -end, b |-> size]

RECURSIVE WriteFiles(_, _, _)
WriteFiles(d, es, k) ==
    IF k > Len(es) THEN d
    ELSE IF es[k].is_dir THEN WriteFiles(d, es, k + 1)
    ELSE WriteFiles(write_bytes(d, es[k].start,
                                [j \in 1..es[k].size |-> 64 + 16 * k + j]),
                    es, k + 1)

MkImage(items) ==
    LET nms == [k \in 1..Len(items) |-> items[k].name]
        offs == StrOffsets(nms, 0)
        n == Len(items) + 1
        size == n * EntrySize + StrTableSize(nms)
        data == _align_4B(FsStart + size)
        es == [k \in 1..Len(items) |->
                 [is_dir |-> items[k].is_dir, str_start |-> offs[k],
                  start |-> IF items[k].is_dir THEN items[k].a
                            ELSE IF items[k].a < 0
                            THEN -items[k].a - items[k].b
                            ELSE data + items[k].a,
                  size |-> items[k].b]]
        d0 == write_bytes([p \in DiskDom |-> 0], 28, MagicWord)
        d1 == write_bytes(d0, 1060, IntToBytes(FsStart, 4))
        d2 == WriteTable(d1, FsStart, size, n, FsStart + n * EntrySize, es, nms)
        ends == {es[k].start + es[k].size : k \in {j \in 1..Len(es) : ~es[j].is_dir}}
    IN [disk |-> WriteFiles(d2, es, 1),
        dsize |-> SetMax(ends \cup {FsStart + size})]

Images ==
    { MkImage(<< >>),
      MkImage(<<ImgFile(NameLowerA, 0, 8)>>),
      MkImage(<<ImgFile(NameLowerA, 40, 6), ImgFile(NameBb, 64, 4)>>),
      MkImage(<<ImgDir(NameUpperA, 0, 3), ImgFile(NameLowerA, 0, 5)>>),
      MkImage(<<ImgFile(NameLowerA, 16, 8), ImgFile(NameBb, 16, 0)>>),
      MkImage(<<ImgFile(NameLowerA, 0, 6), ImgFile(NameBb, 16, 4)>>),
      MkImage(<<ImgFile(NameLowerA, 12, 8), ImgFile(NameBb, 4, 4)>>),
      MkImage(<<ImgFileTo(NameLowerA, target_size, 8)>>),
      [MkImage(<<ImgFileTo(NameLowerA, target_size, 8)>>)
          EXCEPT !.dsize = @ + 4],
      MkImage(<<ImgFileTo(NameLowerA, target_size + 16, 8)>>) }

\* the images that the model keeps whole, from the apploader to their end
SmallImages == {img \in Images : img.dsize <= DiskTop}

NoWrite == [phase |-> "none"]
NoCopy == [pc |-> "none"]
NoPre == [set |-> FALSE]
NoOut == [kind |-> "none"]

\* GCFS.__init__: read the table and build the tree
Init ==
    \E img \in Images :
        LET r == _init(img.disk, img.dsize)
        IN /\ r.err = "none"
           /\ disk = img.disk
           /\ dsize = img.dsize
           /\ rfs = InitRfs
           /\ fs_start = r.fs_start
           /\ fst_size = r.fst_size
           /\ num_entries = r.num_entries
           /\ str_start = r.str_start
           /\ entries = r.entries
           /\ names = r.names
           /\ tree = build_tree(r.entries, r.names)
           /\ edits = 0
           /\ pc = "idle"
           /\ w = NoWrite
           /\ c = NoCopy
           /\ pre = NoPre
           /\ out = NoOut

(***************************************************************************)
(* Tree edits, as the front ends make them.                                *)
(***************************************************************************)
DirIds(t) == {0} \cup {n \in DOMAIN t : t[n].dir}
NamesIn(t, d) == {t[n].name : n \in Children(t, d)}
FreshId(t) == SetMax(DOMAIN t \cup {Len(entries)}) + 1
\* guiutil.invalid_name, with INVALID_FN_CHARS = {'/'}
InvalidFnChar == 47
invalid_name(name) ==
    IF \E k \in 1..Len(name) : name[k] = InvalidFnChar THEN FALSE
    ELSE ~valid_name(name)
HasRef(t, kind) == \E n \in DOMAIN t : t[n].ref.t = kind
Restrict(t, S) == [n \in S |-> t[n]]

EditDone == /\ edits' = edits + 1
            /\ UNCHANGED <<disk, dsize, rfs, fs_start, fst_size, num_entries,
                           str_start, entries, names, pc, w, c, pre, out>>

\* FSBackend.new_dir: dest[(name, None)] = {None: []}
new_dir(d, name) ==
    /\ pc = "idle" /\ edits < MaxEdits /\ out.kind = "none"
    /\ d \in DirIds(tree)
    /\ name \notin NamesIn(tree, d)
    /\ ~invalid_name(name)
    /\ tree' = tree @@ (FreshId(tree) :> Node(name, TRUE, d, NoRef))
    /\ EditDone

\* FSBackend.do_import of a file: current[None].append((name, f))
do_import(d, name, p) ==
    /\ pc = "idle" /\ edits < MaxEdits /\ out.kind = "none"
    /\ d \in DirIds(tree)
    /\ name \notin NamesIn(tree, d)
    /\ ~invalid_name(name)
    /\ ~HasRef(tree, "move")
    /\ tree' = tree @@ (FreshId(tree) :> Node(name, FALSE, d, Path(p)))
    /\ EditDone

\* FSBackend.delete: parent[None].remove(entry) or del parent[k]
delete(n) ==
    /\ pc = "idle" /\ edits < MaxEdits /\ out.kind = "none"
    /\ n \in DOMAIN tree
    /\ tree' = Restrict(tree, DOMAIN tree \ ({n} \cup Descendants(tree, n)))
    /\ EditDone

\* the ranges [start, start + size) of two files share a byte
Overlap(s1, z1, s2, z2) == s1 < s2 + z2 /\ s2 < s1 + z1 /\ z1 > 0 /\ z2 > 0

FileEntries(es) == {k \in 1..Len(es) : ~es[k].is_dir}

\* replacing a file's index by (index, new_start), as write's docstring
\* allows: new_start is 4-byte aligned, the move overwrites no other file
\* and no file is imported in the same write
RelocTargets ==
    {_align_4B(fs_start + fst_size), _align_4B(dsize) + 4}
    \cup {_align_4B(entries[k].start + entries[k].size) :
             k \in FileEntries(entries)}

relocate(n, new_start) ==
    /\ pc = "idle" /\ edits < MaxEdits /\ out.kind = "none"
    /\ n \in DOMAIN tree
    /\ tree[n].ref.t = "idx" /\ ~tree[n].dir
    /\ ~HasRef(tree, "path")
    /\ new_start \in RelocTargets
    /\ new_start >= fs_start + fst_size
    /\ LET i == tree[n].ref.i
           size == entries[i + 1].size
       IN /\ size > 0
          /\ new_start # entries[i + 1].start
          /\ \A k \in FileEntries(entries) :
                ~Overlap(new_start, size, entries[k].start, entries[k].size)
          /\ \A m \in DOMAIN tree :
                tree[m].ref.t = "move" =>
                    ~Overlap(new_start, size, tree[m].ref.s,
                             entries[tree[m].ref.i + 1].size)
    /\ tree' = [tree EXCEPT ![n].ref = Move(tree[n].ref.i, new_start)]
    /\ EditDone

(***************************************************************************)
(* Python tuples of integers and list.sort() on them.                      *)
(***************************************************************************)
RECURSIVE TupleLess(_, _)
TupleLess(a, b) ==
    IF b = << >> THEN FALSE
    ELSE IF a = << >> THEN TRUE
    ELSE IF Head(a) # Head(b) THEN Head(a) < Head(b)
    ELSE TupleLess(Tail(a), Tail(b))

RECURSIVE Insert(_, _)
Insert(x, s) ==
    IF s = << >> THEN <<x>>
    ELSE IF TupleLess(x, Head(s)) THEN <<x>> \o s
    ELSE <<Head(s)>> \o Insert(x, Tail(s))

RECURSIVE Sort(_)
Sort(s) == IF s = << >> THEN << >> ELSE Insert(s[Len(s)], Sort(SubSeq(s, 1, Len(s) - 1)))

Reverse(s) == [k \in 1..Len(s) |-> s[Len(s) + 1 - k]]

SortReverse(s) == Reverse(Sort(s))

RemoveAt(s, k) == SubSeq(s, 1, k - 1) \o SubSeq(s, k + 1, Len(s))

(***************************************************************************)
(* The bulk copy engine: copy(files, progress, names, overwrite,           *)
(* can_cancel).  A job is [src, dests]; a file is the open image ("img")   *)
(* or a path of the real filesystem ("path").  The engine runs one step    *)
(* at a time: opening the files of a job, then one block per step, with    *)
(* the progress callback before the block when it is due.                  *)
(***************************************************************************)
Src(kind, f, start, size) == [kind |-> kind, f |-> f, start |-> start, size |-> size]
Dest(kind, f, start) == [kind |-> kind, f |-> f, start |-> start]
Job(src, dests) == [src |-> src, dests |-> dests]

CopyStart(jobs, prog, overwrite, can_cancel) ==
    [pc |-> IF jobs = << >> THEN "ret" ELSE "open",
     jobs |-> jobs, prog |-> prog, overwrite |-> overwrite,
     can_cancel |-> can_cancel,
     file_i |-> 0, size |-> 0, done |-> 0, src_pos |-> 0, dest_pos |-> << >>,
     total_done |-> 0, progress_update |-> BLOCK_SIZE,
     failed |-> << >>, ret |-> "failed", polls |-> 0,
     \* the last value that the progress function returned, -1 if none
     result |-> -1]

\* the loop goes on with the next job, or the function returns failed
NextJob(cc, failed) ==
    [cc EXCEPT !.file_i = cc.file_i + 1,
               !.failed = failed,
               !.pc = IF cc.file_i + 1 < Len(cc.jobs) THEN "open" ELSE "ret"]

CanOpenRead(fs, f) == fs[f].kind = "file" /\ fs[f].ok
CanOpenWrite(fs, f) == fs[f].kind # "dir" /\ fs[f].ok

\* index of the first destination that cannot be opened, or 0; blocked is
\* "exists" when overwrite is off and the path exists, "error" for IOError
FirstBlocked(fs, dests, overwrite) ==
    LET bad == {i \in 1..Len(dests) :
                   /\ dests[i].kind = "path"
                   /\ \/ (~overwrite /\ exists(fs, dests[i].f))
                      \/ ~CanOpenWrite(fs, dests[i].f)}
    IN IF bad = {} THEN 0 ELSE CHOOSE i \in bad : \A j \in bad : i <= j

\* open(dest_f, 'wb') for the path destinations before index stop
OpenDests(fs, dests, stop) ==
    [p \in DOMAIN fs |->
        IF \E i \in 1..(stop - 1) : dests[i].kind = "path" /\ dests[i].f = p
        THEN [kind |-> "file", ok |-> TRUE, data |-> << >>]
        ELSE fs[p]]

Same(job, i) == job.src.kind = "img" /\ job.dests[i].kind = "img"
AnySame(job) == \E i \in 1..Len(job.dests) : Same(job, i)

copy_open ==
    /\ c.pc = "open"
    /\ LET job == c.jobs[c.file_i + 1]
           src == job.src
           dests == job.dests
           blocked == FirstBlocked(rfs, dests, c.overwrite)
           last_start == dests[Len(dests)].start
       IN IF src.kind = "path" /\ ~CanOpenRead(rfs, src.f)
          THEN \* IOError: failed.append(file_i)
               /\ c' = NextJob(c, Append(c.failed, c.file_i))
               /\ rfs' = rfs
          ELSE IF blocked # 0
          THEN /\ rfs' = OpenDests(rfs, dests, blocked)
               /\ IF ~c.overwrite /\ exists(rfs, dests[blocked].f)
                  THEN \* exists and don't want to overwrite: failed.append(i)
                       c' = NextJob(c, Append(c.failed, blocked - 1))
                  ELSE c' = NextJob(c, Append(c.failed, c.file_i))
          ELSE /\ rfs' = OpenDests(rfs, dests, Len(dests) + 1)
               /\ IF src.size = 0
                  THEN c' = NextJob(c, c.failed)
                  ELSE c' = [c EXCEPT !.pc = "block",
                                      !.size = src.size,
                                      !.done = 0,
                                      !.src_pos = src.start,
                                      \* dest_f.seek(dest_start): dest_start is
                                      \* the start of the last destination
                                      !.dest_pos = [i \in 1..Len(dests) |->
                                                       last_start]]
    /\ UNCHANGED <<disk, dsize>>

ReadFile(d, ds, fs, kind, f, pos, amount) ==
    IF kind = "img" THEN read(d, ds, pos, amount)
    ELSE LET n == Max(0, Min(amount, Len(fs[f].data) - pos))
         IN [k \in 1..n |-> fs[f].data[pos + k]]

WriteData(data, pos, bs) ==
    LET n == Max(Len(data), IF bs = << >> THEN 0 ELSE pos + Len(bs))
    IN [k \in 1..n |-> IF k > pos /\ k <= pos + Len(bs) THEN bs[k - pos]
                       ELSE IF k <= Len(data) THEN data[k] ELSE 0]

RECURSIVE WriteDests(_, _, _, _, _)
\* dest_f.write(data) for the destinations from index i on; wd is the world
\* [disk, dsize, rfs]
WriteDests(wd, job, pos, data, i) ==
    IF i > Len(job.dests) THEN wd
    ELSE LET dest == job.dests[i]
             wd1 == IF data = << >> THEN wd
                    ELSE IF dest.kind = "img"
                    THEN [wd EXCEPT !.disk = write_bytes(wd.disk, pos[i], data),
                                    !.dsize = Max(wd.dsize, pos[i] + Len(data))]
                    ELSE [wd EXCEPT !.rfs[dest.f].data =
                                        WriteData(wd.rfs[dest.f].data, pos[i], data)]
         IN WriteDests(wd1, job, pos, data, i + 1)

\* read and write the next block
copy_do_block(cc) ==
    LET job == cc.jobs[cc.file_i + 1]
        amount == Min(cc.size, BLOCK_SIZE)
        spos == IF AnySame(job) THEN job.src.start + cc.done ELSE cc.src_pos
        data == ReadFile(disk, dsize, rfs, job.src.kind, job.src.f, spos, amount)
        dpos == [i \in 1..Len(job.dests) |->
                    IF Same(job, i) THEN job.dests[i].start + cc.done
                    ELSE cc.dest_pos[i]]
        wd == WriteDests([disk |-> disk, dsize |-> dsize, rfs |-> rfs],
                         job, dpos, data, 1)
        c1 == [cc EXCEPT !.size = cc.size - amount,
                         !.done = cc.done + amount,
                         !.total_done = cc.total_done + amount,
                         !.src_pos = spos + Len(data),
                         !.dest_pos = [i \in 1..Len(job.dests) |->
                                          dpos[i] + Len(data)],
                         !.pc = "block"]
    IN /\ disk' = wd.disk
       /\ dsize' = wd.dsize
       /\ rfs' = wd.rfs
       /\ c' = IF c1.size = 0 THEN NextJob(c1, c1.failed) ELSE c1

Return(cc, value) == [cc EXCEPT !.pc = "ret", !.ret = value]

\* copy_result without the pause: 1 is taken for 0
copy_result_nopause(result) ==
    IF result = 3
    THEN /\ c' = Return([c EXCEPT !.result = result], "False")
         /\ UNCHANGED <<disk, dsize, rfs>>
    ELSE IF result = 2 /\ c.can_cancel
    THEN /\ c' = Return([c EXCEPT !.result = result], "True")
         /\ UNCHANGED <<disk, dsize, rfs>>
    ELSE copy_do_block([c EXCEPT !.progress_update =
                                     c.progress_update + BLOCK_SIZE,
                                 !.polls = 0,
                                 !.result = result])

\* what copy does with the value the progress function returned
copy_result(result) ==
    IF result = 1
    THEN \* paused: sleep, then call progress again (polls counts the calls
         \* made while paused, up to MaxPolls)
         /\ c' = [c EXCEPT !.pc = "paused",
                           !.polls = IF c.pc = "paused"
                                     THEN Min(c.polls + 1, MaxPolls) ELSE 0,
                           !.result = result]
         /\ UNCHANGED <<disk, dsize, rfs>>
    ELSE IF result = 3
    THEN /\ c' = Return([c EXCEPT !.result = result], "False")
         /\ UNCHANGED <<disk, dsize, rfs>>
    ELSE IF result = 2 /\ c.can_cancel
    THEN /\ c' = Return([c EXCEPT !.result = result], "True")
         /\ UNCHANGED <<disk, dsize, rfs>>
    ELSE copy_do_block([c EXCEPT !.progress_update =
                                     c.progress_update + BLOCK_SIZE,
                                 !.polls = 0,
                                 !.result = result])

ProgressResults == {0, 1, 2, 3}

copy_block ==
    /\ c.pc = "block"
    /\ IF c.prog # "none" /\ c.total_done >= c.progress_update
       THEN IF c.prog = "broken"
            THEN \* the wrapped progress function calls None
                 /\ c' = Return(c, "TypeError")
                 /\ UNCHANGED <<disk, dsize, rfs>>
            ELSE \E result \in ProgressResults : copy_result(result)
       ELSE copy_do_block(c)

\* result = progress(None, None, None) while paused
copy_poll ==
    /\ c.pc = "paused"
    /\ \E result \in ProgressResults : copy_result(result)

CopyRunning == pc \in {"copy", "move", "extract", "clean", "dirty"}

CopyFrame == UNCHANGED <<fs_start, fst_size, num_entries, str_start, entries,
                         names, tree, edits, pc, w, pre, out>>

CopyOpen == CopyRunning /\ copy_open /\ CopyFrame

CopyBlock == CopyRunning /\ copy_block /\ CopyFrame

CopyPoll == CopyRunning /\ copy_poll /\ CopyFrame

(***************************************************************************)
(* GCFS.write, step by step.                                               *)
(*                                                                         *)
(* Compiling the new tables: the walk over the tree.  The record st holds  *)
(* the lists the loop fills.  A new file's entry holds its file name in    *)
(* the start slot until the file is placed: the name of real file p is     *)
(* written -p.  index_of remembers the new index of every node.            *)
(***************************************************************************)
WalkStart ==
    [entries |-> << >>, names |-> << >>, str_start |-> 0,
     old_files |-> << >>, moving_files |-> << >>, new_files |-> << >>,
     err |-> FALSE, index_of |-> << >>]

\* Before comparing the names as they are, not their upper-case forms
Before_raw(t, a, b) ==
    \/ StrLess(t[a].name, t[b].name)
    \/ /\ t[a].name = t[b].name
       /\ \/ (~t[a].dir /\ t[b].dir)
          \/ (t[a].dir = t[b].dir /\ a < b)

\* child = min(children, key = sort_key): the first of the smallest, files
\* (in list order) before directories (in dict order)
Before(t, a, b) ==
    \/ StrLess(sort_key(t[a].name), sort_key(t[b].name))
    \/ /\ sort_key(t[a].name) = sort_key(t[b].name)
       /\ \/ (~t[a].dir /\ t[b].dir)
          \/ (t[a].dir = t[b].dir /\ a < b)

MinChild(t, R) == CHOOSE a \in R : \A b \in R \ {a} : Before(t, a, b)

WalkFile(st, t, n, old_entries, fs) ==
    LET ref == t[n].ref
        i == Len(st.entries)
        name == t[n].name
        Add(s, start, size) ==
            [s EXCEPT !.entries = Append(st.entries,
                                         [is_dir |-> FALSE,
                                          str_start |-> st.str_start,
                                          start |-> start, size |-> size]),
                      !.names = Append(st.names, name),
                      !.str_start = st.str_start + Len(_encode(name)) + 1,
                      !.index_of = st.index_of @@ (n :> i)]
    IN IF ref.t = "idx"
       THEN \* existing file
            LET e == old_entries[ref.i + 1]
            IN Add([st EXCEPT !.old_files =
                        Append(st.old_files, <<e.start, i, ref.i, e.size>>)],
                   e.start, e.size)
       ELSE IF ref.t = "path"
       THEN \* new file
            IF ~isfile(fs, ref.i) THEN [st EXCEPT !.err = TRUE]
            ELSE Add([st EXCEPT !.new_files =
                          Append(st.new_files, <<getsize(fs, ref.i), i>>)],
                     -ref.i, getsize(fs, ref.i))
       ELSE \* existing file to move within the image
            LET e == old_entries[ref.i + 1]
            IN Add([st EXCEPT !.moving_files =
                        Append(st.moving_files,
                               <<ref.i, i, e.start, ref.s, e.size>>)],
                   ref.s, e.size)

\* WalkDir with the next index one too small
WalkDir_short(st, t, n, parent) ==
    LET name == t[n].name
        next_index == Len(st.entries) + 1 + tree_size(t, n)
    IN [st EXCEPT !.entries = Append(st.entries,
                                     [is_dir |-> TRUE,
                                      str_start |-> st.str_start,
                                      start |-> parent, size |-> next_index]),
                  !.names = Append(st.names, name),
                  !.str_start = st.str_start + Len(_encode(name)) + 1,
                  !.index_of = st.index_of @@ (n :> Len(st.entries))]

\* a directory: its entry holds the parent's index and the index after its
\* last descendant
WalkDir(st, t, n, parent) ==
    LET name == t[n].name
        next_index == Len(st.entries) + 2 + tree_size(t, n)
    IN [st EXCEPT !.entries = Append(st.entries,
                                     [is_dir |-> TRUE,
                                      str_start |-> st.str_start,
                                      start |-> parent, size |-> next_index]),
                  !.names = Append(st.names, name),
                  !.str_start = st.str_start + Len(_encode(name)) + 1,
                  !.index_of = st.index_of @@ (n :> Len(st.entries))]

RECURSIVE Walk(_, _, _, _, _, _)
\* the children R of the directory with new index parent that are still
\* in the tree are visited, smallest first
Walk(st, t, R, parent, old_entries, fs) ==
    IF R = {} \/ st.err THEN st
    ELSE LET child == MinChild(t, R)
         IN IF ~t[child].dir
            THEN Walk(WalkFile(st, t, child, old_entries, fs), t,
                      R \ {child}, parent, old_entries, fs)
            ELSE LET st1 == WalkDir(st, t, child, parent)
                     st2 == Walk(st1, t, Children(t, child),
                                 Len(st1.entries), old_entries, fs)
                 IN Walk(st2, t, R \ {child}, parent, old_entries, fs)

(***************************************************************************)
(* The steps of write.                                                     *)
(***************************************************************************)
InstFrame == UNCHANGED <<fs_start, fst_size, num_entries, str_start, entries,
                         names, tree>>

\* the image and the instance when caller (write, compress or decompress) was
\* entered; tree is the tree that write walks
Snapshot(t, caller) ==
    [set |-> TRUE, disk |-> disk, dsize |-> dsize,
     fs_start |-> fs_start, fst_size |-> fst_size,
     num_entries |-> num_entries, str_start |-> str_start,
     entries |-> entries, names |-> names, tree |-> t, caller |-> caller]

\* the value write returns when it reaches its end
WriteDone == "False"

Returned(value, why, at) ==
    [kind |-> "return", ret |-> value, why |-> why, exc |-> "none",
     handled |-> FALSE, at |-> at]
Raised(exc, handled, at) ==
    [kind |-> "raise", ret |-> "none", why |-> "error", exc |-> exc,
     handled |-> handled, at |-> at]

\* the directory that the caller of write may pass as tmp_dir
CallerTmp == CHOOSE p \in SourceIds : InitRfs[p].kind = "dir"

\* cleanup_tmp_dir: rmtree(tmp_dir) if tmp_dir is not None.  tmp_dir is
\* "none" for None, "given" for the caller's directory and "made" once
\* write has put the result of mkdtemp in it
cleanup_tmp_dir(fs, wl) ==
    IF wl.tmp_dir = "made"
    THEN [p \in DOMAIN fs |-> IF p \in TempIds THEN NoFile ELSE fs[p]]
    ELSE IF wl.tmp_dir = "given"
    THEN [p \in DOMAIN fs |-> IF p = CallerTmp THEN NoFile ELSE fs[p]]
    ELSE fs

\* cleanup: also return the disk image to its original size if expanded
cleanup(wl) ==
    /\ rfs' = cleanup_tmp_dir(rfs, wl)
    /\ IF wl.truncated
       THEN /\ dsize' = wl.orig_disk_size
            /\ disk' = Truncate(disk, wl.orig_disk_size)
       ELSE UNCHANGED <<disk, dsize>>

Idle == /\ pc' = "idle"
        /\ c' = NoCopy

\* what is left to decompress once compress has returned False: the image is
\* given the target size
cleanup_truncate(wl) ==
    /\ rfs' = cleanup_tmp_dir(rfs, wl)
    /\ dsize' = target_size
    /\ disk' = Truncate(IF wl.truncated THEN Truncate(disk, wl.orig_disk_size)
                        ELSE disk, target_size)

\* what compress does to the instance when the write it called has ended:
\* build_tree() if write raised a flagged exception or returned True
CallerFrame(rebuild) ==
    /\ UNCHANGED <<fs_start, fst_size, num_entries, str_start, entries, names>>
    /\ tree' = IF pre.caller # "write" /\ rebuild
               THEN build_tree(entries, names) ELSE tree

\* how write ends when copy returned the value it was cancelled with
\* (isinstance(failed, int)): cleanup(f); return failed
WriteCancelled ==
    /\ IF pre.caller = "decompress" /\ c.ret = "False"
       THEN cleanup_truncate(w) ELSE cleanup(w)
    /\ out' = Returned(c.ret, IF c.ret = "True" THEN "cancel2" ELSE "cancel3", pc)
    /\ Idle
    /\ UNCHANGED <<w, pre, edits>>
    /\ CallerFrame(c.ret = "True")

\* cleanup(f), then the exception leaves write
WriteError(exc, handled) ==
    /\ cleanup(w)
    /\ out' = Raised(exc, handled, pc)
    /\ Idle
    /\ UNCHANGED <<w, pre, edits>>
    /\ CallerFrame(handled)

\* error without the flag
error_unflagged(exc) == WriteError(exc, FALSE)

\* error(msg, f): cleanup, then raise with e.handled = True
error(exc) == WriteError(exc, TRUE)

\* write entered with the tree t, by write itself or through compress
WriteStart(t, progress, caller, tmp_dir) ==
    /\ pre' = Snapshot(t, caller)
    /\ LET st == Walk(WalkStart, t, Children(t, 0), 0, entries, rfs)
           data_start == fs_start + (1 + Len(st.entries)) * EntrySize + st.str_start
           wl == [progress |-> progress, entries |-> st.entries,
                  names |-> st.names, old_files |-> st.old_files,
                  moving_files |-> st.moving_files,
                  new_files |-> st.new_files, index_of |-> st.index_of,
                  data_start |-> data_start, truncated |-> FALSE,
                  orig_disk_size |-> 0, tmp_dir |-> tmp_dir,
                  tmp_given |-> tmp_dir = "given", evacuated |-> 0,
                  free |-> << >>, end |-> 0, file_i |-> 0,
                  last |-> [placed |-> FALSE],
                  nf_clean |-> << >>, nf_dirty |-> << >>]
           mf == st.moving_files
           last_start == SetMax({mf[k][4] : k \in 1..Len(mf)})
       IN /\ IF st.err
             THEN \* not a valid file: ValueError with handled = True
                  /\ out' = Raised("ValueError", TRUE, "walk")
                  /\ w' = NoWrite
                  /\ Idle
                  /\ UNCHANGED <<disk, dsize>>
             ELSE IF mf # << >>
             THEN \* copy files within disk image
                  /\ out' = out
                  /\ w' = [wl EXCEPT !.orig_disk_size = dsize,
                                     !.truncated = dsize < last_start,
                                     !.old_files =
                                         st.old_files \o
                                         [k \in 1..Len(mf) |->
                                             <<mf[k][4], mf[k][2], mf[k][1], mf[k][5]>>]]
                  /\ dsize' = IF dsize < last_start THEN last_start ELSE dsize
                  /\ disk' = disk
                  /\ c' = CopyStart([k \in 1..Len(mf) |->
                                        Job(Src("img", 0, mf[k][3], mf[k][5]),
                                            <<Dest("img", 0, mf[k][4])>>)],
                                    IF progress THEN "call" ELSE "none",
                                    TRUE, TRUE)
                  /\ pc' = "move"
             ELSE /\ out' = out
                  /\ w' = wl
                  /\ c' = NoCopy
                  /\ pc' = "evac"
                  /\ UNCHANGED <<disk, dsize>>
          /\ tree' = IF st.err /\ caller # "write"
                     THEN build_tree(entries, names) ELSE t
    /\ UNCHANGED <<rfs, edits>>
    /\ UNCHANGED <<fs_start, fst_size, num_entries, str_start, entries, names>>

WriteBegin(progress) ==
    /\ pc = "idle"
    /\ out.kind = "none"
    /\ WriteStart(tree, progress, "write", "none")

WriteAfterMove ==
    /\ pc = "move" /\ c.pc = "ret"
    /\ IF c.ret # "failed" THEN WriteCancelled
       ELSE IF c.failed # << >> THEN error("IOError")
       ELSE /\ pc' = "evac"
            /\ c' = NoCopy
            /\ UNCHANGED <<disk, dsize, rfs, w, pre, out, edits>>
            /\ InstFrame

\* the number of files to extract: the index of the first old file that does
\* not start before data_start
NumToExtract(old_files, data_start) ==
    LET at == {k \in 1..Len(old_files) : old_files[k][1] >= data_start}
    IN IF at = {} THEN 0 ELSE (CHOOSE k \in at : \A j \in at : k <= j) - 1

\* the free gaps between the end of the tables and the first old file and
\* between old files, and the end of the last old file
StartAlloc(wl) ==
    LET old == wl.old_files
        l == <<<<wl.data_start, 0, 0, 0>>>> \o old
        gaps == [j \in 1..(Len(l) - 1) |->
                    <<l[j + 1][1] - _align_4B(l[j][1] + l[j][4]),
                      _align_4B(l[j][1] + l[j][4])>>]
        free == SelectSeq(gaps, LAMBDA g : g[1] > 0)
        end == IF old # << >> THEN old[Len(old)][1] + old[Len(old)][4]
               ELSE wl.data_start
    IN [wl EXCEPT !.free = SortReverse(free),
                  !.end = _align_4B(end),
                  !.new_files = SortReverse(wl.new_files),
                  !.file_i = 0]

WriteEvacuate ==
    /\ pc = "evac"
    /\ LET old == Sort(w.old_files)
           n == NumToExtract(old, w.data_start)
           temp(j) == NumSources + j
           moved == [j \in 1..n |-> old[j]]
           wl == [w EXCEPT
                    !.old_files = SubSeq(old, n + 1, Len(old)),
                    !.new_files = w.new_files \o
                                  [j \in 1..n |-> <<old[j][4], old[j][2]>>],
                    !.entries = [k \in 1..Len(w.entries) |->
                                   IF \E j \in 1..n : old[j][2] + 1 = k
                                   THEN [w.entries[k] EXCEPT !.start =
                                            -temp(CHOOSE j \in 1..n :
                                                      old[j][2] + 1 = k)]
                                   ELSE w.entries[k]],
                    !.tmp_dir = "made",
                    !.evacuated = n]
           \* to_extract, sorted by position
           to_extract == Sort([j \in 1..n |-> <<old[j][1], old[j][3], temp(j)>>])
       IN IF n > 0
          THEN \* the temporary files are created; opening one for writing
               \* may fail
               /\ \E bad \in SUBSET (1..n) :
                     rfs' = [p \in DOMAIN rfs |->
                                IF \E j \in 1..n : temp(j) = p
                                THEN [kind |-> "file",
                                      ok |-> (p - NumSources) \notin bad,
                                      data |-> << >>]
                                ELSE rfs[p]]
               /\ w' = wl
               /\ c' = CopyStart([j \in 1..n |->
                                     LET e == entries[to_extract[j][2] + 1]
                                     IN Job(Src("img", 0, e.start, e.size),
                                            <<Dest("path", to_extract[j][3], 0)>>)],
                                 "none", TRUE, TRUE)
               /\ pc' = "extract"
          ELSE /\ w' = StartAlloc([w EXCEPT !.old_files = old])
               /\ pc' = IF w.new_files # << >> THEN "alloc" ELSE "commit"
               /\ c' = NoCopy
               /\ rfs' = rfs
    /\ UNCHANGED <<disk, dsize, pre, out, edits>>
    /\ InstFrame

WriteAfterExtract ==
    /\ pc = "extract" /\ c.pc = "ret"
    /\ IF c.failed # << >> THEN error("IOError")
       ELSE /\ w' = StartAlloc(w)
            /\ pc' = "alloc"
            /\ c' = NoCopy
            /\ UNCHANGED <<disk, dsize, rfs, pre, out, edits>>
            /\ InstFrame

\* FindGap taking the largest gap whenever the file fits in it
FindGap_first(free, size) ==
    IF free = << >> \/ free[1][1] < size THEN -1 ELSE 0

\* for gap_i, (gap, gap_start) in enumerate(free): if gap < size: gap_i -= 1; break
\* (the Python index of the gap to use, or -1)
FindGap(free, size) ==
    LET small == {k \in 1..Len(free) : free[k][1] < size}
    IN IF free = << >> THEN -1
       ELSE IF small = {} THEN Len(free) - 1
       ELSE (CHOOSE k \in small : \A j \in small : k <= j) - 2

\* one round of the loop that fits the new files to the gaps
AllocStep ==
    /\ pc = "alloc"
    /\ w.file_i < Len(w.new_files)
    /\ LET size == w.new_files[w.file_i + 1][1]
           i == w.new_files[w.file_i + 1][2]
           gap_i == FindGap(w.free, size)
           gap == w.free[gap_i + 1][1]
           gap_start == w.free[gap_i + 1][2]
           gap_end == gap_start + gap
           new_start == _align_4B(gap_start + size)
           new_gap == gap_end - new_start
           start == IF gap_i < 0 THEN w.end ELSE gap_start
       IN w' = [w EXCEPT
                  !.end = IF gap_i < 0 THEN _align_4B(w.end + size) ELSE w.end,
                  !.free = IF gap_i < 0 THEN w.free
                           ELSE IF new_gap > 0
                           THEN SortReverse([w.free EXCEPT ![gap_i + 1] =
                                                <<new_gap, new_start>>])
                           ELSE RemoveAt(w.free, gap_i + 1),
                  !.new_files[w.file_i + 1] = <<start, size, start + size, i>>,
                  !.file_i = w.file_i + 1,
                  !.last = [placed |-> TRUE, size |-> size, start |-> start,
                            free |-> w.free, end |-> w.end,
                            rest |-> SubSeq(w.new_files, w.file_i + 2,
                                            Len(w.new_files))]]
    /\ UNCHANGED <<disk, dsize, rfs, pc, c, pre, out, edits>>
    /\ InstFrame

RECURSIVE IsClean(_, _, _)
\* the inner loop of the split: old is the old files not yet passed; the
\* result is the answer and the old files left for the next new file
IsClean(start, end, old) ==
    IF old = << >> THEN [clean |-> TRUE, old |-> old]
    ELSE IF Head(old)[3] <= start THEN IsClean(start, end, Tail(old))
    ELSE IF Head(old)[1] >= end THEN [clean |-> TRUE, old |-> old]
    ELSE [clean |-> FALSE, old |-> old]

RECURSIVE Split(_, _, _)
\* the new files (sorted) split into those that do not / do overwrite
\* existing files
Split(new_files, old, acc) ==
    IF new_files = << >> THEN acc
    ELSE LET f == Head(new_files)
             r == IsClean(f[1], f[3], old)
         IN Split(Tail(new_files), r.old,
                  IF r.clean
                  THEN [acc EXCEPT !.nf_clean = Append(@, <<f[1], f[4]>>)]
                  ELSE [acc EXCEPT !.nf_dirty = Append(@, <<f[1], f[4]>>)])

\* OldFilesAll with every old file ending where it starts
OldFilesAll_noend(old_entries) ==
    Sort([k \in 1..Cardinality(FileEntries(old_entries)) |->
             LET e == old_entries[SortedSeq(FileEntries(old_entries))[k]]
             IN <<e.start, e.size, e.start>>])

\* sorted((st, sz, st + sz) for d, ss, st, sz in old_entries if not d)
OldFilesAll(old_entries) ==
    Sort([k \in 1..Cardinality(FileEntries(old_entries)) |->
             LET e == old_entries[SortedSeq(FileEntries(old_entries))[k]]
             IN <<e.start, e.size, e.start + e.size>>])

\* to_copy for one of the two lists; the entries get their start
CopyJobs(nf, wentries) ==
    [k \in 1..Len(nf) |->
        LET e == wentries[nf[k][2] + 1]
        IN Job(Src("path", -e.start, 0, e.size), <<Dest("img", 0, nf[k][1])>>)]

Placed(nf, wentries) ==
    [k \in 1..Len(wentries) |->
        IF \E j \in 1..Len(nf) : nf[j][2] + 1 = k
        THEN [wentries[k] EXCEPT !.start =
                 nf[CHOOSE j \in 1..Len(nf) : nf[j][2] + 1 = k][1]]
        ELSE wentries[k]]

\* the new files are split and the clean ones copied: can_cancel = True
WriteCopyClean ==
    /\ pc = "alloc"
    /\ w.file_i = Len(w.new_files)
    /\ LET sp == Split(Sort(w.new_files), OldFilesAll(entries),
                       [nf_clean |-> << >>, nf_dirty |-> << >>])
           nf_clean == Sort(sp.nf_clean)
           nf_dirty == Sort(sp.nf_dirty)
           all == nf_clean \o nf_dirty
           last_start == SetMax({all[k][1] : k \in 1..Len(all)})
       IN /\ w' = [w EXCEPT !.nf_clean = nf_clean, !.nf_dirty = nf_dirty,
                            !.entries = Placed(nf_clean, w.entries)]
          /\ dsize' = IF dsize < last_start THEN last_start ELSE dsize
          /\ c' = CopyStart(CopyJobs(nf_clean, w.entries),
                            IF w.progress THEN "call" ELSE "broken",
                            TRUE, TRUE)
    /\ pc' = "clean"
    /\ UNCHANGED <<disk, rfs, pre, out, edits>>
    /\ InstFrame

\* WriteAfterClean copying the dirty files with can_cancel = True
WriteAfterClean_cancel ==
    /\ pc = "clean" /\ c.pc = "ret"
    /\ IF c.ret = "TypeError" THEN
            /\ out' = Raised("TypeError", FALSE, pc)
            /\ Idle
            /\ UNCHANGED <<disk, dsize, rfs, w, pre, edits>>
            /\ InstFrame
       ELSE IF c.ret # "failed" THEN WriteCancelled
       ELSE IF c.failed # << >> THEN error("IOError")
       ELSE /\ w' = [w EXCEPT !.entries = Placed(w.nf_dirty, w.entries)]
            /\ c' = CopyStart(CopyJobs(w.nf_dirty, w.entries),
                              IF w.progress THEN "call" ELSE "broken",
                              TRUE, TRUE)
            /\ pc' = "dirty"
            /\ UNCHANGED <<disk, dsize, rfs, pre, out, edits>>
            /\ InstFrame

\* then the dirty ones: can_cancel = False
WriteAfterClean ==
    /\ pc = "clean" /\ c.pc = "ret"
    /\ IF c.ret = "TypeError" THEN
            /\ out' = Raised("TypeError", FALSE, pc)
            /\ Idle
            /\ UNCHANGED <<disk, dsize, rfs, w, pre, edits>>
            /\ InstFrame
       ELSE IF c.ret # "failed" THEN WriteCancelled
       ELSE IF c.failed # << >> THEN error("IOError")
       ELSE /\ w' = [w EXCEPT !.entries = Placed(w.nf_dirty, w.entries)]
            /\ c' = CopyStart(CopyJobs(w.nf_dirty, w.entries),
                              IF w.progress THEN "call" ELSE "broken",
                              TRUE, FALSE)
            /\ pc' = "dirty"
            /\ UNCHANGED <<disk, dsize, rfs, pre, out, edits>>
            /\ InstFrame

WriteAfterDirty ==
    /\ pc = "dirty" /\ c.pc = "ret"
    /\ IF c.ret = "TypeError" THEN
            /\ out' = Raised("TypeError", FALSE, pc)
            /\ Idle
            /\ UNCHANGED <<disk, dsize, rfs, w, pre, edits>>
            /\ InstFrame
       ELSE IF c.ret # "failed" THEN WriteCancelled
       ELSE IF c.failed # << >> THEN WriteError("IOError", FALSE)
       ELSE /\ pc' = "commit"
            /\ c' = NoCopy
            /\ UNCHANGED <<disk, dsize, rfs, w, pre, out, edits>>
            /\ InstFrame

\* the new tables are written to the image and the tree is rebuilt
\* write without its last step, the truncation of the image
WriteCommit_notruncate ==
    /\ pc = "commit"
    /\ LET new_fst_size == w.data_start - fs_start
           n == Len(w.entries) + 1
           new_str_start == fs_start + n * EntrySize
           d1 == WriteTable(disk, fs_start, new_fst_size, n, new_str_start,
                            w.entries, w.names)
           size1 == Max(dsize, w.data_start)
           ends == {w.entries[k].start + w.entries[k].size :
                       k \in FileEntries(w.entries)}
           end == SetMax({w.data_start} \cup ends)
       IN /\ rfs' = cleanup_tmp_dir(rfs, w)
          /\ fst_size' = new_fst_size
          /\ num_entries' = n
          /\ str_start' = new_str_start
          /\ entries' = w.entries
          /\ names' = w.names
          /\ disk' = IF pre.caller = "decompress" THEN Truncate(d1, target_size)
                     ELSE d1
          /\ dsize' = IF pre.caller = "decompress" THEN target_size
                      ELSE size1
          /\ tree' = build_tree(w.entries, w.names)
    /\ out' = Returned(WriteDone, "success", pc)
    /\ Idle
    /\ UNCHANGED <<fs_start, w, pre, edits>>

WriteCommit ==
    /\ pc = "commit"
    /\ LET new_fst_size == w.data_start - fs_start
           n == Len(w.entries) + 1
           new_str_start == fs_start + n * EntrySize
           d1 == WriteTable(disk, fs_start, new_fst_size, n, new_str_start,
                            w.entries, w.names)
           size1 == Max(dsize, w.data_start)
           ends == {w.entries[k].start + w.entries[k].size :
                       k \in FileEntries(w.entries)}
           end == SetMax({w.data_start} \cup ends)
       IN /\ rfs' = cleanup_tmp_dir(rfs, w)
          /\ fst_size' = new_fst_size
          /\ num_entries' = n
          /\ str_start' = new_str_start
          /\ entries' = w.entries
          /\ names' = w.names
          \* decompress goes on to f.truncate(target_size)
          /\ disk' = IF pre.caller = "decompress" THEN Truncate(d1, target_size)
                     ELSE IF end < size1 THEN Truncate(d1, end) ELSE d1
          /\ dsize' = IF pre.caller = "decompress" THEN target_size
                      ELSE IF end < size1 THEN end ELSE size1
          /\ tree' = build_tree(w.entries, w.names)
    /\ out' = Returned(WriteDone, "success", pc)
    /\ Idle
    /\ UNCHANGED <<fs_start, w, pre, edits>>

(***************************************************************************)
(* _quick_compress and compress.  A file of _quick_compress's list is      *)
(* <<pos, size, i, node>>: node stands for the place in the tree that      *)
(* d[d_i] names.  A gap is <<start, gap>>.                                 *)
(***************************************************************************)
\* files = [[entries[i][2], entries[i][3], i, ...] ...]; files.sort(reverse = True)
QcFiles(t, es) ==
    LET ns == SortedSeq({n \in DOMAIN t : ~t[n].dir})
    IN SortReverse([k \in 1..Len(ns) |->
                       LET i == t[ns[k]].ref.i
                       IN <<es[i + 1].start, es[i + 1].size, i, ns[k]>>])

\* the start of the file data: the end of the last name of the string table
QcDataStart(es, nms, ss) ==
    LET m == SetMax({es[k].str_start : k \in 1..Len(es)})
        i == SetMax({k \in 1..Len(es) : es[k].str_start = m})
    IN m + Len(_encode(nms[i])) + 1 + ss

\* the free space, sorted by position, aligned to 4-byte blocks
QcFree(files, data_start) ==
    LET l == <<<<data_start, 0>>>> \o Reverse(files)
        gaps == [j \in 1..(Len(l) - 1) |->
                    <<_align_4B(l[j][1] + l[j][2]),
                      l[j + 1][1] - _align_4B(l[j][1] + l[j][2])>>]
    IN Sort(SelectSeq(gaps, LAMBDA g : g[2] > 0))

RECURSIVE QcPass(_, _)
\* for f_data in files: put each file in the earliest possible gap
QcPass(st, k) ==
    IF k > Len(st.files) THEN st
    ELSE LET f == st.files[k]
             fit == {g \in 1..Len(st.free) :
                        st.free[g][2] >= f[2] /\ st.free[g][1] < f[1]}
         IN IF fit = {} THEN QcPass(st, k + 1)
            ELSE LET g == CHOOSE x \in fit : \A y \in fit : x <= y
                     start == st.free[g][1]
                     end == start + st.free[g][2]
                     new_start == _align_4B(start + f[2])
                     gap == end - new_start
                 IN QcPass([st EXCEPT
                              !.tree[f[4]].ref = Move(f[3], start),
                              !.files[k][1] = start,
                              !.free = IF gap > 0
                                       THEN Sort([@ EXCEPT ![g] = <<new_start, gap>>])
                                       ELSE RemoveAt(@, g),
                              !.this_changed = TRUE,
                              !.changed = TRUE], k + 1)

RECURSIVE QcLoop(_)
\* while this_changed: one pass, then files.sort(reverse = True)
QcLoop(st) ==
    LET r == QcPass([st EXCEPT !.this_changed = FALSE], 1)
        sorted == [r EXCEPT !.files = SortReverse(@)]
    IN IF r.this_changed THEN QcLoop(sorted) ELSE sorted

\* QcLast moving the last file even if it is already in place
QcLast_always(st, data_start) ==
    LET files == st.files
        start == _align_4B(IF Len(files) > 1 THEN files[2][1] + files[2][2]
                           ELSE data_start)
    IN [st EXCEPT !.tree[files[1][4]].ref = Move(files[1][3], start),
                  !.changed = TRUE]

\* move last file to end of previous file if possible; files[0][0] = pos
\* leaves the list as it was
QcLast(st, data_start) ==
    LET files == st.files
        start == _align_4B(IF Len(files) > 1 THEN files[2][1] + files[2][2]
                           ELSE data_start)
    IN IF files[1][1] > start
       THEN [st EXCEPT !.tree[files[1][4]].ref = Move(files[1][3], start),
                       !.changed = TRUE]
       ELSE st

\* (changed, orig_size, new_size) and the tree with the moves marked; the
\* sizes are -1 for None
_quick_compress(t, es, nms, ss) ==
    LET files == QcFiles(t, es)
        data_start == QcDataStart(es, nms, ss)
        st == QcLast(QcLoop([tree |-> t, files |-> files,
                             free |-> QcFree(files, data_start),
                             this_changed |-> TRUE, changed |-> FALSE]),
                     data_start)
    IN IF files = << >>
       THEN [changed |-> FALSE, orig_size |-> -1, new_size |-> -1, tree |-> t]
       ELSE [changed |-> st.changed,
             orig_size |-> files[1][1] + files[1][2],
             new_size |-> st.files[1][1] + st.files[1][2],
             tree |-> st.tree]

\* compress(progress): build_tree(); if _quick_compress()[0]: write(progress)
compress(progress) ==
    /\ pc = "idle"
    /\ out.kind = "none"
    /\ LET t == build_tree(entries, names)
           qc == _quick_compress(t, entries, names, str_start)
       IN IF qc.changed
          THEN WriteStart(qc.tree, progress, "compress", "none")
          ELSE \* no write follows: pre keeps the tree the instance held
               /\ pre' = Snapshot(tree, "compress")
               /\ out' = Returned("None", "nochange", "compress")
               /\ tree' = t
               /\ UNCHANGED <<disk, dsize, rfs, fs_start, fst_size,
                              num_entries, str_start, entries, names, edits,
                              pc, w, c>>

\* max(0, *(start + size for ... in self.entries)): with no entry this is
\* max(0), which raises TypeError
MaxExtent(es) == SetMax({es[k].start + es[k].size : k \in 1..Len(es)})

\* decompress(progress); _quick_compress is called on the tree as it is, and
\* entries[i] raises TypeError where a file of the tree is not an index
decompress(progress) ==
    /\ pc = "idle"
    /\ out.kind = "none"
    /\ LET size == MaxExtent(entries)
           qc == _quick_compress(tree, entries, names, str_start)
           stay == /\ UNCHANGED <<disk, dsize, rfs, fs_start, fst_size,
                                  num_entries, str_start, entries, names,
                                  edits, pc, w, c>>
                   /\ pre' = Snapshot(tree, "decompress")
       IN IF entries = << >>
          THEN /\ out' = Raised("TypeError", FALSE, "decompress")
               /\ tree' = tree
               /\ stay
          ELSE IF size > target_size
          THEN IF \E n \in DOMAIN tree : ~tree[n].dir /\ tree[n].ref.t # "idx"
               THEN /\ out' = Raised("TypeError", FALSE, "decompress")
                    /\ tree' = tree
                    /\ stay
               ELSE IF qc.changed /\ qc.new_size <= target_size
               THEN WriteStart(qc.tree, progress, "decompress", "none")
               ELSE /\ out' = Raised("ValueError", TRUE, "decompress")
                    /\ tree' = build_tree(entries, names)
                    /\ stay
          ELSE IF size = target_size
          THEN /\ out' = Returned("False", "sized", "decompress")
               /\ tree' = tree
               /\ stay
          ELSE /\ out' = Returned("False", "sized", "decompress")
               /\ pre' = Snapshot(tree, "decompress")
               /\ dsize' = target_size
               /\ disk' = Truncate(disk, target_size)
               /\ UNCHANGED <<rfs, fs_start, fst_size, num_entries, str_start,
                              entries, names, tree, edits, pc, w, c>>

Next ==
    \/ \E d \in DirIds(tree), name \in Names : new_dir(d, name)
    \/ \E d \in DirIds(tree), name \in Names, p \in SourceIds :
          do_import(d, name, p)
    \/ \E n \in DOMAIN tree : delete(n)
    \/ \E n \in DOMAIN tree, s \in RelocTargets : relocate(n, s)
    \/ \E progress \in BOOLEAN : WriteBegin(progress)
    \/ \E progress \in BOOLEAN : compress(progress)
    \/ \E progress \in BOOLEAN : decompress(progress)
    \/ WriteAfterMove
    \/ WriteEvacuate
    \/ WriteAfterExtract
    \/ AllocStep
    \/ WriteCopyClean
    \/ WriteAfterClean
    \/ WriteAfterDirty
    \/ WriteCommit
    \/ CopyOpen
    \/ CopyBlock
    \/ CopyPoll

Spec == Init /\ [][Next]_vars

(***************************************************************************)
(* write(tmp_dir = a directory of the caller).                             *)
(***************************************************************************)
WriteBeginIn(progress) ==
    /\ pc = "idle"
    /\ out.kind = "none"
    /\ WriteStart(tree, progress, "write", "given")

NextTmp ==
    \/ \E d \in DirIds(tree), name \in Names : new_dir(d, name)
    \/ \E d \in DirIds(tree), name \in Names, p \in SourceIds :
          do_import(d, name, p)
    \/ \E n \in DOMAIN tree : delete(n)
    \/ \E progress \in BOOLEAN : WriteBeginIn(progress)
    \/ WriteEvacuate
    \/ WriteAfterExtract
    \/ AllocStep
    \/ WriteCopyClean
    \/ WriteAfterClean
    \/ WriteAfterDirty
    \/ WriteCommit
    \/ CopyOpen
    \/ CopyBlock
    \/ CopyPoll

SpecTmp == Init /\ [][NextTmp]_vars

(***************************************************************************)
(* disk_changed, with another program writing to the image file in         *)
(* between.                                                                *)
(***************************************************************************)
MaxTamper == 2

\* the bytes of the image that the other program writes: one of the magic
\* word, of fst_size (two), of the number of entries, of the first entry's
\* name offset, and the first byte of the string table
TamperAt == {28, 1065, 1067, fs_start + 11, fs_start + 15, str_start}
TamperBytes == {0, 80, 130}

Tamper(p, b) ==
    /\ pc = "idle" /\ out.kind = "none"
    /\ edits < MaxTamper
    /\ p \in TamperAt /\ p < dsize
    /\ disk[p] # b
    /\ disk' = [disk EXCEPT ![p] = b]
    /\ edits' = edits + 1
    /\ UNCHANGED <<dsize, rfs, fs_start, fst_size, num_entries, str_start,
                   entries, names, tree, pc, w, c, pre, out>>

\* disk_changed(): the attributes are saved, _init() reads the image, the
\* attributes are compared and the saved ones put back; an exception of
\* _init leaves disk_changed at once
disk_changed ==
    /\ pc = "idle" /\ out.kind = "none"
    /\ pre' = Snapshot(tree, "disk_changed")
    /\ LET r == _init(disk, dsize)
           differs == \/ r.fs_start # fs_start
                      \/ r.fst_size # fst_size
                      \/ r.num_entries # num_entries
                      \/ r.str_start # str_start
                      \/ r.entries # entries
                      \/ r.names # names
       IN IF r.err # "none"
          THEN /\ out' = Raised(r.err, FALSE, "_init")
               /\ fs_start' = IF r.assigned >= 1 THEN r.fs_start ELSE fs_start
               /\ fst_size' = IF r.assigned >= 2 THEN r.fst_size ELSE fst_size
               /\ num_entries' = IF r.assigned >= 3 THEN r.num_entries
                                 ELSE num_entries
               /\ str_start' = IF r.assigned >= 4 THEN r.str_start
                               ELSE str_start
               /\ entries' = IF r.assigned >= 5 THEN r.entries ELSE entries
               /\ names' = IF r.assigned >= 6 THEN r.names ELSE names
          ELSE /\ out' = Returned(IF differs THEN "True" ELSE "False",
                                  "probe", "disk_changed")
               /\ UNCHANGED <<fs_start, fst_size, num_entries, str_start,
                              entries, names>>
    /\ UNCHANGED <<disk, dsize, rfs, tree, edits, pc, w, c>>

NextProbe ==
    \/ \E p \in TamperAt, b \in TamperBytes : Tamper(p, b)
    \/ disk_changed

SpecProbe == Init /\ [][NextProbe]_vars

(***************************************************************************)
(* Loading: GCFS(fn) on an image file that another program has written to. *)
(* Before the call there is no instance; pc is "unloaded".  When the loop  *)
(* of build_tree never ends, pc stays "build_tree".                        *)
(***************************************************************************)
\* an image whose second name runs for MaxNameRead bytes up to the end of
\* the file, with no null byte after it
LongDom == DiskDom \cup (FsStart..(FsStart + 3 * EntrySize + 2 + MaxNameRead))
LongImage ==
    LET nms == <<NameLowerA, [k \in 1..MaxNameRead |-> 65]>>
        es == [k \in 1..2 |-> [is_dir |-> FALSE, str_start |-> 2 * (k - 1),
                               start |-> 0, size |-> 0]]
        size == 3 * EntrySize + 2 + MaxNameRead
        d0 == write_bytes([p \in LongDom |-> 0], 28, MagicWord)
        d1 == write_bytes(d0, 1060, IntToBytes(FsStart, 4))
    IN [disk |-> WriteTable(d1, FsStart, size, 3, FsStart + 3 * EntrySize,
                            es, nms),
        dsize |-> FsStart + size]

LoadImages == SmallImages \cup {LongImage}

InitLoad ==
    \E img \in LoadImages :
        /\ disk = img.disk
        /\ dsize = img.dsize
        /\ rfs = InitRfs
        /\ fs_start = 0 /\ fst_size = 0 /\ num_entries = 0 /\ str_start = 0
        /\ entries = << >> /\ names = << >> /\ tree = << >>
        /\ edits = 0
        /\ pc = "unloaded"
        /\ w = NoWrite
        /\ c = NoCopy
        /\ pre = NoPre
        /\ out = NoOut

\* the bytes the other program writes: one of the magic word, of fs_start
\* (two), of fst_size (two), of the number of entries (two), the first
\* entry's directory flag and one each of its name offset, its parent and
\* its next index, and the first byte of the string table
CorruptAt(d, size) ==
    {28, 1060, 1063, 1065, 1067, FsStart + 9, FsStart + 11, FsStart + 12,
     FsStart + 15, FsStart + 19, FsStart + 23,
     FsStart + EntrySize * read_num(d, size, FsStart + 8, 4)}
CorruptBytes == {0, 1, 80, 130}

Corrupt(p, b) ==
    /\ pc = "unloaded" /\ out.kind = "none"
    /\ edits < MaxTamper
    /\ p \in CorruptAt(disk, dsize) /\ p < dsize /\ p \in DOMAIN disk
    \* the numbers read stay below 2^31: no high bit in fs_start, and no
    \* fs_start that passes the checks and has the table read off its place
    /\ p = 1060 => b < 128
    /\ p = 1063 => b = 0
    /\ disk[p] # b
    /\ disk' = [disk EXCEPT ![p] = b]
    /\ edits' = edits + 1
    /\ UNCHANGED <<dsize, rfs, fs_start, fst_size, num_entries, str_start,
                   entries, names, tree, pc, w, c, pre, out>>

\* GCFS.__init__ (sanity = True): update(), that is _init() and build_tree()
load ==
    /\ pc = "unloaded" /\ out.kind = "none"
    /\ LET r == _init(disk, dsize)
           run == build_tree_run(r.entries)
       IN IF r.err # "none"
          THEN /\ out' = Raised(r.err, FALSE, "_init")
               /\ UNCHANGED <<fs_start, fst_size, num_entries, str_start,
                              entries, names, tree, pc>>
          ELSE IF run = "RecursionError"
          THEN /\ out' = Raised(run, FALSE, "build_tree")
               /\ UNCHANGED <<fs_start, fst_size, num_entries, str_start,
                              entries, names, tree, pc>>
          ELSE /\ fs_start' = r.fs_start
               /\ fst_size' = r.fst_size
               /\ num_entries' = r.num_entries
               /\ str_start' = r.str_start
               /\ entries' = r.entries
               /\ names' = r.names
               /\ IF run = "loop"
                  THEN /\ pc' = "build_tree"
                       /\ UNCHANGED <<tree, out>>
                  ELSE /\ pc' = "idle"
                       /\ tree' = build_tree(r.entries, r.names)
                       /\ out' = Returned("None", "loaded", "__init__")
    /\ UNCHANGED <<disk, dsize, rfs, edits, w, c, pre>>

NextLoad ==
    \/ \E p \in CorruptAt(disk, dsize), b \in CorruptBytes : Corrupt(p, b)
    \/ load

SpecLoad == InitLoad /\ [][NextLoad]_vars

(***************************************************************************)
(* tree_size(tree, file_size = True) on an edited tree.                    *)
(***************************************************************************)
\* the size of one file of the list under None: entries[i][3] when i is an
\* int, else getsize(i) with 0 for an OSError; getsize of anything that is
\* not a path, such as the pair (index, new_start), raises TypeError
this_size(ref, es, fs) ==
    IF ref.t = "idx" THEN es[ref.i + 1].size
    ELSE IF ref.t = "path" THEN (IF exists(fs, ref.i) THEN getsize(fs, ref.i)
                                 ELSE 0)
    ELSE -1

RECURSIVE tree_file_size(_, _, _, _)
\* the total for the directory d of the tree, -1 for a TypeError: the files
\* of d, then the total of each directory in d
tree_file_size(t, d, es, fs) ==
    LET files == SortedSeq(FileNodes(t, d))
        dirs == SortedSeq(DirNodes(t, d))
        sizes == [k \in 1..Len(files) |-> this_size(t[files[k]].ref, es, fs)]
        subs == [k \in 1..Len(dirs) |-> tree_file_size(t, dirs[k], es, fs)]
    IN IF \E k \in 1..Len(sizes) : sizes[k] < 0 THEN -1
       ELSE IF \E k \in 1..Len(subs) : subs[k] < 0 THEN -1
       ELSE SumSeq(sizes) + SumSeq(subs)

tree_size_call ==
    /\ pc = "idle" /\ out.kind = "none"
    /\ pre' = Snapshot(tree, "tree_size")
    /\ LET size == tree_file_size(tree, 0, entries, rfs)
       IN IF size < 0
          THEN /\ out' = Raised("TypeError", FALSE, "tree_size")
               /\ w' = NoWrite
          ELSE /\ out' = Returned("int", "size", "tree_size")
               /\ w' = [phase |-> "none", size |-> size]
    /\ UNCHANGED <<disk, dsize, rfs, fs_start, fst_size, num_entries,
                   str_start, entries, names, tree, edits, pc, c>>

NextSize ==
    \/ \E d \in DirIds(tree), name \in Names : new_dir(d, name)
    \/ \E d \in DirIds(tree), name \in Names, p \in SourceIds :
          do_import(d, name, p)
    \/ \E n \in DOMAIN tree : delete(n)
    \/ \E n \in DOMAIN tree, s \in RelocTargets : relocate(n, s)
    \/ tree_size_call

SpecSize == Init /\ [][NextSize]_vars

(***************************************************************************)
(* The undo journal of FSBackend.  No write runs here: w holds the part of *)
(* _hist below _hist_pos, one record per action, and pre the tree as it    *)
(* was before the action that undo has just taken back.                    *)
(***************************************************************************)
Journal == IF "hist" \in DOMAIN w THEN w.hist ELSE << >>

RECURSIVE PathOf(_, _)
\* the path of a node: the names from the root down to it
PathOf(t, n) == IF n = 0 THEN << >> ELSE Append(PathOf(t, t[n].parent), t[n].name)

\* get_tree / get_file: the node at a path
Find(t, path) == CHOOSE n \in DOMAIN t \cup {0} : PathOf(t, n) = path

Parent(path) == SubSeq(path, 1, Len(path) - 1)

\* _add_hist, with what the action recorded for its undo: the path of the
\* item (path), for a move its old path (old), for a delete the entry or
\* the tree that was removed (nodes, with the item as top)
_add_hist(action, path, old, nodes, top) ==
    /\ w' = [phase |-> "none",
             hist |-> Append(Journal, [action |-> action, path |-> path,
                                       old |-> old, nodes |-> nodes,
                                       top |-> top, before |-> tree])]
    /\ edits' = edits + 1
    /\ pre' = NoPre
    /\ UNCHANGED <<disk, dsize, rfs, fs_start, fst_size, num_entries,
                   str_start, entries, names, pc, c, out>>

Subtree(t, n) == {n} \cup Descendants(t, n)

\* the item n of the tree src put into directory d of t: a file is appended
\* to d's list, a directory is put in d with its tree, which keeps the
\* order of its lists
Graft(t, src, n, d) ==
    LET S == Subtree(src, n)
        id(m) == FreshId(t) + Cardinality({x \in S : x < m})
    IN t @@ [i \in {id(m) : m \in S} |->
                LET m == CHOOSE x \in S : id(x) = i
                IN [src[m] EXCEPT !.parent = IF m = n THEN d ELSE id(@)]]

Remove(t, n) == Restrict(t, DOMAIN t \ Subtree(t, n))

CanCopy(n, d) ==
    /\ pc = "idle" /\ edits < MaxEdits /\ out.kind = "none"
    /\ n \in DOMAIN tree
    /\ d \in DirIds(tree) \ Subtree(tree, n)
    /\ d # tree[n].parent
    /\ tree[n].name \notin NamesIn(tree, d)

\* FSBackend.new_dir
hist_new_dir(d, name) ==
    /\ pc = "idle" /\ edits < MaxEdits /\ out.kind = "none"
    /\ d \in DirIds(tree)
    /\ name \notin NamesIn(tree, d)
    /\ ~invalid_name(name)
    /\ tree' = tree @@ (FreshId(tree) :> Node(name, TRUE, d, NoRef))
    /\ _add_hist("new", Append(PathOf(tree, d), name), << >>, << >>, 0)

\* FSBackend.delete: done holds the entry of a file, the key and the tree of
\* a directory
hist_delete(n) ==
    /\ pc = "idle" /\ edits < MaxEdits /\ out.kind = "none"
    /\ n \in DOMAIN tree
    /\ tree' = Remove(tree, n)
    /\ _add_hist("delete", PathOf(tree, n), << >>,
                 Restrict(tree, Subtree(tree, n)), n)

\* FSBackend.copy
hist_copy(n, d) ==
    /\ CanCopy(n, d)
    /\ tree' = Graft(tree, tree, n, d)
    /\ _add_hist("copy", Append(PathOf(tree, d), tree[n].name), << >>,
                 << >>, 0)

\* FSBackend.move: copy, then delete of the source
hist_move(n, d) ==
    /\ CanCopy(n, d)
    /\ tree' = Remove(Graft(tree, tree, n, d), n)
    /\ _add_hist("move", Append(PathOf(tree, d), tree[n].name),
                 PathOf(tree, n), << >>, 0)

\* FSBackend.undo: a move is moved back, a copy or a new directory deleted;
\* a deleted file is appended to its directory's list, a deleted directory
\* put back with its tree
undo ==
    /\ pc = "idle" /\ out.kind = "none"
    /\ Journal # << >>
    /\ LET h == Journal[Len(Journal)]
           n == Find(tree, h.path)
       IN /\ tree' =
                IF h.action = "move"
                THEN Remove(Graft(tree, tree, n, Find(tree, Parent(h.old))), n)
                ELSE IF h.action \in {"copy", "new"}
                THEN Remove(tree, n)
                ELSE Graft(tree, h.nodes, h.top, Find(tree, Parent(h.path)))
          /\ pre' = Snapshot(h.before, "undo")
          /\ w' = [phase |-> "none",
                   hist |-> SubSeq(Journal, 1, Len(Journal) - 1)]
    /\ UNCHANGED <<disk, dsize, rfs, fs_start, fst_size, num_entries,
                   str_start, entries, names, edits, pc, c, out>>

NextUndo ==
    \/ \E d \in DirIds(tree), name \in Names : hist_new_dir(d, name)
    \/ \E n \in DOMAIN tree : hist_delete(n)
    \/ \E n \in DOMAIN tree, d \in DirIds(tree) : hist_copy(n, d)
    \/ \E n \in DOMAIN tree, d \in DirIds(tree) : hist_move(n, d)
    \/ undo

SpecUndo == Init /\ [][NextUndo]_vars

(***************************************************************************)
(* The front end's edits with the names a user may type: besides the       *)
(* names above, one with the path separator, one with a null character and *)
(* one that shift-jis cannot encode.                                       *)
(***************************************************************************)
NameSlash == <<97, 47, 98>>
NameNull == <<97, 0>>
NameWide == <<256>>
TypedNames == Names \cup {NameSlash, NameNull, NameWide}

NextNames ==
    \/ \E d \in DirIds(tree), name \in TypedNames : new_dir(d, name)
    \/ \E d \in DirIds(tree), name \in TypedNames, p \in SourceIds :
          do_import(d, name, p)

SpecNames == Init /\ [][NextNames]_vars

(***************************************************************************)
(* extract and extract_extra_files.  The destination given by the caller   *)
(* is the first temporary path; the paths below it that extract makes up   *)
(* are the next ones, in the order in which extract first names them.      *)
(***************************************************************************)
\* where the apploader starts, and where its size is stored
ApploaderStart == 9280
ApploaderSizeAt == 9300

\* os.mkdir(dest): 0 if the directory is made, 17 (EEXIST) if the path
\* exists, another errno if it cannot be made
mkdir_errno(fs, p) ==
    IF exists(fs, p) THEN 17 ELSE IF ~fs[p].ok THEN 2 ELSE 0

MadeDir == [kind |-> "dir", ok |-> TRUE, data |-> << >>]

\* the queue entries for the children of a directory: files first, then
\* directories, each with the next free path
ChildItems(t, kids, first_path) ==
    LET fl == SortedSeq({n \in kids : ~t[n].dir})
        dl == SortedSeq({n \in kids : t[n].dir})
        all == fl \o dl
    IN [k \in 1..Len(all) |->
           [orig |-> t[all[k]].ref.i, dest |-> first_path + k - 1,
            dir |-> t[all[k]].dir, kids |-> Children(t, all[k])]]

RECURSIVE ExtractLoop(_, _)
\* while files: create directory trees and compile files to copy; the loop
\* stops where failed.append is reached, the local name failed being
\* unbound until copy has returned
ExtractLoop(st, t) ==
    IF st.files = << >> \/ st.exc # "none" THEN st
    ELSE LET it == Head(st.files)
             rest == Tail(st.files)
             errno == mkdir_errno(st.fs, it.dest)
             items == ChildItems(t, it.kids, st.next_path)
         IN IF it.dir
            THEN IF errno # 0 /\ (~st.overwrite \/ errno # 17)
                 THEN ExtractLoop([st EXCEPT
                                     !.files = rest,
                                     !.exc = "UnboundLocalError",
                                     !.mkdir_failed =
                                         @ \cup {<<it.orig, it.dest>>}], t)
                 ELSE ExtractLoop([st EXCEPT
                                     !.files = rest \o items,
                                     !.next_path = @ + Len(items),
                                     !.fs = IF errno = 0
                                            THEN [@ EXCEPT ![it.dest] = MadeDir]
                                            ELSE @], t)
            ELSE ExtractLoop([st EXCEPT
                                !.files = rest,
                                !.to_copy = Append(@,
                                    Job(Src("img", 0, entries[it.orig + 1].start,
                                            entries[it.orig + 1].size),
                                        <<Dest("path", it.dest, 0)>>)),
                                !.failed_pool = Append(@, <<it.orig, it.dest>>)],
                             t)

\* extract([(i, dest)], overwrite, progress) up to the call of copy; i is -1
\* for the root, or the index of a directory or of a file
extract(i, overwrite, progress) ==
    /\ pc = "idle" /\ out.kind = "none"
    /\ i \in (-1)..(Len(entries) - 1)
    /\ pre' = Snapshot(tree, "extract")
    /\ LET t == build_tree(entries, names)
           dest == NumSources + 1
           is_dir == i < 0 \/ entries[i + 1].is_dir
           item == [orig |-> i, dest |-> dest, dir |-> is_dir,
                    kids |-> IF i < 0 THEN Children(t, 0) ELSE {i + 1}]
           st == ExtractLoop([files |-> <<item>>, fs |-> rfs,
                              next_path |-> dest + 1, overwrite |-> overwrite,
                              to_copy |-> << >>, failed_pool |-> << >>,
                              mkdir_failed |-> {}, exc |-> "none"], t)
       IN /\ rfs' = st.fs
          /\ w' = [phase |-> "extract", failed_pool |-> st.failed_pool,
                   mkdir_failed |-> st.mkdir_failed, result |-> << >>]
          /\ IF st.exc # "none"
             THEN /\ out' = Raised(st.exc, FALSE, "mkdir")
                  /\ UNCHANGED <<pc, c>>
             ELSE /\ out' = out
                  /\ pc' = "copy"
                  /\ c' = CopyStart(st.to_copy,
                                    IF progress THEN "call" ELSE "none",
                                    overwrite, TRUE)
    /\ UNCHANGED <<disk, dsize, edits>>
    /\ InstFrame

\* copy has returned: the value it was cancelled with, or
\* [failed_pool[i] for i in failed]
extract_end ==
    /\ pc = "copy" /\ c.pc = "ret" /\ pre.caller = "extract"
    /\ IF c.ret # "failed"
       THEN /\ out' = Returned(c.ret, "cancelled", "extract")
            /\ w' = w
       ELSE /\ out' = Returned("list", "done", "extract")
            /\ w' = [w EXCEPT !.result =
                        [k \in 1..Len(c.failed) |->
                            w.failed_pool[c.failed[k] + 1]]]
    /\ Idle
    /\ UNCHANGED <<disk, dsize, rfs, pre, edits>>
    /\ InstFrame

\* get_extra_files: appldr.bin as (name, start, size)
appldr ==
    [start |-> ApploaderStart,
     size |-> ApploaderStart + read_num(disk, dsize, ApploaderSizeAt, 4)]

\* extract_extra_files([('appldr.bin', dest)], overwrite) up to the call of
\* copy
extract_extra_files(overwrite) ==
    /\ pc = "idle" /\ out.kind = "none"
    /\ pre' = Snapshot(tree, "extract_extra_files")
    /\ w' = [phase |-> "extra", dest |-> NumSources + 1]
    /\ pc' = "copy"
    /\ c' = CopyStart(<<Job(Src("img", 0, appldr.start, appldr.size),
                            <<Dest("path", NumSources + 1, 0)>>)>>,
                      "none", overwrite, FALSE)
    /\ UNCHANGED <<disk, dsize, rfs, out, edits>>
    /\ InstFrame

\* if copy(to_copy, None, None, overwrite): failed.append(i)
extract_extra_files_end ==
    /\ pc = "copy" /\ c.pc = "ret" /\ pre.caller = "extract_extra_files"
    /\ out' = Returned("list", IF c.failed # << >> THEN "failed" ELSE "done",
                       "extract_extra_files")
    /\ Idle
    /\ UNCHANGED <<disk, dsize, rfs, w, pre, edits>>
    /\ InstFrame

\* the real filesystem before the call: each temporary path is absent, absent
\* and impossible to create, a file or a directory; a path below another
\* exists only if that one is a directory
PathStates ==
    [absent |-> NoFile,
     nocreate |-> [kind |-> "none", ok |-> FALSE, data |-> << >>],
     file |-> Existing,
     dir |-> MadeDir]


InitExtract ==
    \E img \in SmallImages, ps \in [TempIds -> DOMAIN PathStates] :
        LET r == _init(img.disk, img.dsize)
            t1 == NumSources + 1
            nested == \E k \in 1..Len(r.entries) : r.entries[k].is_dir
        IN /\ r.err = "none"
           /\ \A p \in TempIds \ {t1} :
                 ps[p] \in {"file", "dir"} =>
                    /\ ps[t1] = "dir"
                    /\ (nested /\ p > t1 + 1) => ps[t1 + 1] = "dir"
           /\ disk = img.disk
           /\ dsize = img.dsize
           /\ rfs = [p \in DOMAIN InitRfs |->
                        IF p \in TempIds THEN PathStates[ps[p]]
                        ELSE InitRfs[p]]
           /\ fs_start = r.fs_start
           /\ fst_size = r.fst_size
           /\ num_entries = r.num_entries
           /\ str_start = r.str_start
           /\ entries = r.entries
           /\ names = r.names
           /\ tree = build_tree(r.entries, r.names)
           /\ edits = 0
           /\ pc = "idle"
           /\ w = NoWrite
           /\ c = NoCopy
           /\ pre = NoPre
           /\ out = NoOut

NextExtract ==
    \/ \E i \in (-1)..(Len(entries) - 1), overwrite \in BOOLEAN, progress \in BOOLEAN :
          extract(i, overwrite, progress)
    \/ extract_end
    \/ \E overwrite \in BOOLEAN : extract_extra_files(overwrite)
    \/ extract_extra_files_end
    \/ CopyOpen
    \/ CopyBlock
    \/ CopyPoll

SpecExtract == InitExtract /\ [][NextExtract]_vars

\* the image never outgrows the part of it that the model keeps, and no
\* file of the table lies outside it
InModel ==
    /\ dsize <= DiskTop \/ (dsize >= HighLo /\ dsize <= HighTop)
    /\ \A k \in FileEntries(entries) :
          \A p \in entries[k].start..(entries[k].start + entries[k].size - 1) :
              p \in DiskDom

(***************************************************************************)
(* copy called on its own: two jobs between files of the real filesystem.  *)
(***************************************************************************)
\* (src, dest, ...) with file names only: start 0, size get_size(src)
PathJob(fs, p, ds) ==
    Job(Src("path", p, 0, getsize(fs, p)),
        [k \in 1..Len(ds) |-> Dest("path", ds[k], 0)])

\* the image that is open while copy runs
CopyImage == MkImage(<< >>)
CopyInst == _init(CopyImage.disk, CopyImage.dsize)

InitCopy ==
    /\ disk = CopyImage.disk
    /\ dsize = CopyImage.dsize
    /\ fs_start = CopyInst.fs_start
    /\ fst_size = CopyInst.fst_size
    /\ num_entries = CopyInst.num_entries
    /\ str_start = CopyInst.str_start
    /\ entries = CopyInst.entries
    /\ names = CopyInst.names
    /\ tree = build_tree(CopyInst.entries, CopyInst.names)
    /\ edits = 0
    /\ pc = "copy"
    /\ w = NoWrite
    /\ pre = NoPre
    /\ out = NoOut
    /\ \E s1 \in SourceIds, s2 \in SourceIds, present \in SUBSET TempIds,
          two \in BOOLEAN, overwrite \in BOOLEAN, can_cancel \in BOOLEAN,
          prog \in {"none", "call"} :
           LET t1 == NumSources + 1
               t2 == NumSources + 2
               t3 == NumSources + 3
               fs == [p \in DOMAIN InitRfs |->
                        IF p \in present THEN Existing ELSE InitRfs[p]]
           IN /\ rfs = fs
              /\ c = CopyStart(<<PathJob(fs, s1, IF two THEN <<t1, t2>>
                                                        ELSE <<t1>>),
                                 PathJob(fs, s2, <<t3>>)>>,
                               prog, overwrite, can_cancel)

NextCopy ==
    \/ CopyOpen
    \/ CopyBlock
    \/ CopyPoll

SpecCopy == InitCopy /\ [][NextCopy]_vars

(***************************************************************************)
(* Properties.                                                             *)
(***************************************************************************)
Succeeded == out.kind = "return" /\ out.why = "success"

\* the new on-disk index of node n of the tree that was written, as a node
\* id of the rebuilt tree (0 for the root)
NewId(n) == IF n = 0 THEN 0 ELSE w.index_of[n] + 1

\* C1: after a successful write, build_tree on the entries and names that
\* write produced gives the tree that was written: as many nodes, and every
\* node has its name, its kind and its parent directory, and refers to its
\* new entry index
C1_RoundTrip ==
    Succeeded =>
        /\ tree = build_tree(entries, names)
        /\ DOMAIN tree = {NewId(n) : n \in DOMAIN pre.tree}
        /\ Cardinality(DOMAIN tree) = Cardinality(DOMAIN pre.tree)
        /\ \A n \in DOMAIN pre.tree :
              /\ tree[NewId(n)].name = pre.tree[n].name
              /\ tree[NewId(n)].dir = pre.tree[n].dir
              /\ tree[NewId(n)].parent = NewId(pre.tree[n].parent)
              /\ tree[NewId(n)].ref = Idx(w.index_of[n])

\* a tree with an imported file inside a directory and a file after that
\* directory has been written
C1_Witness ==
    /\ Succeeded
    /\ \E n \in DOMAIN pre.tree, m \in DOMAIN pre.tree :
          /\ pre.tree[n].ref.t = "path"
          /\ pre.tree[n].parent # 0
          /\ pre.tree[m].parent = 0
          /\ ~pre.tree[m].dir
          /\ w.index_of[m] > w.index_of[n]

\* the allocation loop has placed every new file
AllPlaced == pc = "alloc" /\ w.file_i = Len(w.new_files)

\* C2: when the allocation is done, no two placed new files share a byte
\* and no placed new file shares a byte with a retained old file
C2_NoOverlap ==
    AllPlaced =>
        /\ \A j \in 1..Len(w.new_files), k \in 1..Len(w.new_files) :
              j # k => ~Overlap(w.new_files[j][1], w.new_files[j][2],
                                w.new_files[k][1], w.new_files[k][2])
        /\ \A j \in 1..Len(w.new_files), k \in 1..Len(w.old_files) :
              ~Overlap(w.new_files[j][1], w.new_files[j][2],
                       w.old_files[k][1], w.old_files[k][4])

\* C3: once the evacuation step is over, no file that is still in old_files
\* starts below the new start of the file data
C3_AllEvacuated ==
    pc \in {"alloc", "clean", "dirty", "commit"} =>
        \A k \in 1..Len(w.old_files) : w.old_files[k][1] >= w.data_start

\* the table of the image as it was before write, and the files it lists
TableKept ==
    /\ read(disk, dsize, 1064, 4) = read(pre.disk, pre.dsize, 1064, 4)
    /\ read(disk, dsize, fs_start, pre.fst_size)
          = read(pre.disk, pre.dsize, fs_start, pre.fst_size)

FilesKept ==
    \A k \in FileEntries(pre.entries) :
        read(disk, dsize, pre.entries[k].start, pre.entries[k].size)
            = read(pre.disk, pre.dsize, pre.entries[k].start,
                   pre.entries[k].size)

InstanceKept ==
    /\ fst_size = pre.fst_size
    /\ num_entries = pre.num_entries
    /\ str_start = pre.str_start
    /\ entries = pre.entries
    /\ names = pre.names
    /\ tree = pre.tree

\* C4: when write raised an error flagged handled or returned because a
\* cancel request was granted, the table of the image and the bytes of every
\* original file are as before the call, and so are the instance's entries,
\* names and tree
C4_Unaltered ==
    (\/ (out.kind = "raise" /\ out.handled)
     \/ (out.kind = "return" /\ out.why = "cancel2"))
        => (TableKept /\ FilesKept /\ InstanceKept)

CancelledClean == out.kind = "return" /\ out.why = "cancel2" /\ out.at = "clean"

\* C5: when write was cancelled while copying the clean placements, the
\* byte range of every file of the table as it was before write reads as
\* before
C5_CleanCancelKeepsFiles == CancelledClean => FilesKept

\* a cancel in the clean phase after bytes were written to the image, with
\* a file of the old table that holds data
C5_Witness ==
    /\ CancelledClean
    /\ disk # pre.disk
    /\ \E k \in FileEntries(pre.entries) : pre.entries[k].size > 0

ExtractFailed == out.kind = "raise" /\ out.at = "extract"

\* C6 as stated: when the extraction of a file to its temporary file failed
\* in the evacuation step, the error write raises is not flagged handled
C6_NotHandled == ExtractFailed => ~out.handled

\* C6: when the extraction of a file to its temporary file failed in the
\* evacuation step, write raises an IOError flagged handled, and the table
\* of the image and the instance are as before the call
C6_Handled ==
    ExtractFailed =>
        /\ out.exc = "IOError"
        /\ out.handled
        /\ TableKept
        /\ InstanceKept

\* an extraction failed after entries of the new table were rewritten
C6_Witness ==
    /\ ExtractFailed
    /\ w.evacuated > 0
    /\ \E k \in 1..Len(w.entries) : w.entries[k].start < 0

\* C7: the value write returns after a cancellation (granted or forced) is
\* not the value it returns when it has completed
C7_CancelDistinct ==
    (out.kind = "return" /\ out.why \in {"cancel2", "cancel3"})
        => out.ret # WriteDone

\* the last placement of the allocation loop: the gaps that were large
\* enough for the file
Fits == {k \in 1..Len(w.last.free) : w.last.free[k][1] >= w.last.size}

HasPlaced == pc # "idle" /\ pc # "copy" /\ w.last.placed

\* C8: the file just placed is at least as large as every file still to be
\* placed; if some gap was large enough it starts at the start of a gap that
\* is the smallest of those, otherwise at the end-of-data pointer
C8_SmallestGap ==
    HasPlaced =>
        /\ \A k \in 1..Len(w.last.rest) : w.last.rest[k][1] <= w.last.size
        /\ IF Fits # {}
           THEN \E k \in Fits :
                   /\ w.last.start = w.last.free[k][2]
                   /\ \A j \in Fits : w.last.free[k][1] <= w.last.free[j][1]
           ELSE w.last.start = w.last.end

\* a file was placed when two gaps of different sizes were large enough,
\* with a smaller file still to be placed
C8_Witness ==
    /\ HasPlaced
    /\ \E j \in Fits, k \in Fits : w.last.free[j][1] < w.last.free[k][1]
    /\ \E k \in 1..Len(w.last.rest) : w.last.rest[k][1] < w.last.size

\* the job was carried out: the source could be read and every destination
\* holds its bytes
JobCopied(job) ==
    /\ CanOpenRead(rfs, job.src.f)
    /\ \A k \in 1..Len(job.dests) :
          /\ rfs[job.dests[k].f].kind = "file"
          /\ rfs[job.dests[k].f].data = rfs[job.src.f].data

\* C9: the list copy returns holds the index of a job exactly when the job
\* was not carried out
C9_FailedExact ==
    (pc = "copy" /\ c.pc = "ret" /\ c.ret = "failed") =>
        \A i \in 0..(Len(c.jobs) - 1) :
            (\E k \in 1..Len(c.failed) : c.failed[k] = i)
                <=> ~JobCopied(c.jobs[i + 1])

\* C10: after a successful write changed() is false and reading the table
\* from the image gives the attributes the instance holds
C10_InSync ==
    Succeeded =>
        /\ ~changed(tree, entries, names)
        /\ _init(disk, dsize) =
              InitResult("none", 6, fs_start, fst_size, num_entries, str_start,
                         entries, names)

\* the files of a table in the order of their position
FilesByStart(es) ==
    Sort([k \in 1..Cardinality(FileEntries(es)) |->
             LET e == es[SortedSeq(FileEntries(es))[k]]
             IN <<e.start, e.size>>])

\* an already-compressed image: no free gap between the end of the table and
\* the first file, and none between one file and the next
Compressed(table_end, es) ==
    LET l == <<<<table_end, 0>>>> \o FilesByStart(es)
    IN \A j \in 1..(Len(l) - 1) : l[j + 1][1] <= _align_4B(l[j][1] + l[j][2])

ParentOf(es, j) ==
    SetMax({k \in 1..(j - 1) : es[k].is_dir /\ es[k].size > j})

\* the name at entry i does not come after the name at entry j, letter case
\* ignored
NotAfter(nms, i, j) == ~StrLess(sort_key(nms[j]), sort_key(nms[i]))

\* C12: after write, the entries that are direct children of any one
\* directory, taken in table order, are in case-insensitive ascending order of
\* name, directories and files interleaved by name
C12_Alphabetical ==
    Succeeded =>
        \A i, j \in 1..Len(entries) :
            (i < j /\ ParentOf(entries, i) = ParentOf(entries, j))
                => NotAfter(names, i, j)

\* a written directory where a directory entry stands between two files and
\* letter case decides the order
C12_Witness ==
    /\ Succeeded
    /\ \E i, j, k \in 1..Len(entries) :
          /\ i < j /\ j < k
          /\ ParentOf(entries, i) = ParentOf(entries, j)
          /\ ParentOf(entries, j) = ParentOf(entries, k)
          /\ ~entries[i].is_dir /\ entries[j].is_dir /\ ~entries[k].is_dir
          /\ StrLess(names[k], names[i])

\* write ended before its commit: it raised, or it returned the value it
\* was cancelled with
EndedEarly ==
    /\ pre.set /\ pre.caller = "write"
    /\ \/ out.kind = "raise"
       \/ out.kind = "return" /\ out.why \in {"cancel2", "cancel3"}

\* C13: if write raises an error or is cancelled before the table is
\* committed, the image file is as long afterwards as it was before the call
C13_LengthRestored == EndedEarly => dsize = pre.dsize

\* C14: disk_changed is a probe that changes nothing: whether it returns
\* True, returns False or raises because the image no longer passes the load
\* checks, fs_start, fst_size, num_entries, str_start, entries and names are
\* afterwards what they were before the call
C14_ProbeKeepsInstance ==
    (pre.set /\ pre.caller = "disk_changed")
    => /\ fs_start = pre.fs_start
       /\ fst_size = pre.fst_size
       /\ num_entries = pre.num_entries
       /\ str_start = pre.str_start
       /\ entries = pre.entries
       /\ names = pre.names

\* C15: when extract cannot create a destination directory, it does not
\* raise: it returns a failed list that holds that (item, destination) pair
C15_MkdirFailureListed ==
    (pre.set /\ pre.caller = "extract" /\ out.kind # "none"
     /\ w.mkdir_failed # {})
    => /\ out.kind = "return"
       /\ out.ret = "list" =>
             \A pair \in w.mkdir_failed :
                 \E k \in 1..Len(w.result) : w.result[k] = pair

\* C16: extract_extra_files for appldr.bin copies exactly the size bytes
\* that start at 0x2440, size being the number stored at 0x2454
C16_ApploaderExact ==
    (pre.set /\ pre.caller = "extract_extra_files"
     /\ out.kind = "return" /\ out.why = "done")
    => rfs[w.dest].data
          = read(disk, dsize, ApploaderStart,
                 read_num(disk, dsize, ApploaderSizeAt, 4))

\* C17: whenever decompress returns without raising and without having been
\* cancelled, the image file is exactly target_size bytes long
C17_TargetLength ==
    (pre.set /\ pre.caller = "decompress"
     /\ out.kind = "return" /\ out.why \in {"success", "sized"})
    => dsize = target_size

\* a name that holds the path separator or a null character, or that the
\* codec cannot represent
BadName(name) ==
    \E k \in 1..Len(name) :
        name[k] = InvalidFnChar \/ name[k] = 0 \/ ~Encodable(name[k])

\* C18: a name with the path separator (or a null character, or not
\* representable in the codec) is reported invalid, so new_dir and import
\* never put such a name in the tree
C18_NoBadNameCommitted == \A n \in DOMAIN tree : ~BadName(tree[n].name)

\* the step copies the next block
BlockCopied == c'.total_done = c.total_done + Min(c.size, BLOCK_SIZE)

\* C19: when the progress function returns 1, copy writes nothing more and
\* calls it again, with (None, None, None), until it returns another value;
\* that value is acted on as the control code (3 ends the copy with False, 2
\* ends it with True if cancelling is allowed, anything else goes on with the
\* next block), and copying resumes only then
C19_PauseProtocol ==
    [][/\ (c'.pc # "none" /\ c'.result = 1) => c'.pc = "paused"
       /\ c'.pc = "paused" =>
             /\ c'.result = 1
             /\ UNCHANGED <<disk, dsize, rfs>>
             /\ c'.total_done = c.total_done
       /\ c.pc = "paused" =>
             /\ copy_poll
             /\ c'.pc # "paused" =>
                   IF c'.result = 3
                   THEN c'.pc = "ret" /\ c'.ret = "False"
                        /\ UNCHANGED <<disk, dsize, rfs>>
                   ELSE IF c'.result = 2 /\ c.can_cancel
                   THEN c'.pc = "ret" /\ c'.ret = "True"
                        /\ UNCHANGED <<disk, dsize, rfs>>
                   ELSE c'.result \in {0, 2} /\ BlockCopied]_vars

\* copy is paused in the middle of a file and the progress function has
\* answered 1 again
C19_Witness ==
    /\ pc = "copy" /\ c.pc = "paused"
    /\ c.polls >= 1
    /\ c.done > 0 /\ c.size > 0

\* the dirty files have all been written to the image
DirtyCopied ==
    \A k \in 1..Len(c.jobs) :
        read(disk, dsize, c.jobs[k].dests[1].start, c.jobs[k].src.size)
            = rfs[c.jobs[k].src.f].data

\* C20: where cancelling is not allowed, as in write's dirty phase, a 2
\* from the progress function never stops the copy: the next block is copied,
\* the copy ends with the failure list and every job copied in full, and
\* write goes on to commit the table
C20_NoCancelInDirty ==
    [][/\ (pc' = "dirty" /\ c'.pc = "ret") => c'.ret # "True"
       /\ (pc = "dirty" /\ c.pc \in {"block", "paused"} /\ c' # c
           /\ c'.result = 2) => BlockCopied /\ c'.ret = "failed"
       /\ (pc = "dirty" /\ c.pc = "ret" /\ c.ret = "failed"
           /\ c.failed = << >>) => DirtyCopied /\ (pc' = "commit" \/ pc' = pc)
      ]_vars

\* the copy of the dirty files has ended with nothing failed although the
\* progress function last returned 2
C20_Witness ==
    /\ pc = "dirty" /\ c.pc = "ret"
    /\ c.result = 2
    /\ c.ret = "failed" /\ c.failed = << >>

\* the conditions on the image under which loading has to fail
LoadFault(d, size) ==
    LET fs == read_num(d, size, 1060, 4)
        fst == read_num(d, size, 1064, 4)
        n == read_num(d, size, fs + 8, 4)
        table_end == fs + fst
        names_at == fs + n * EntrySize
        e(i) == ReadEntry(d, size, fs + i * EntrySize)
    IN \/ read(d, size, 28, 4) # MagicWord
       \/ fs < MinFsStart \/ fs > MaxFsStart
       \/ fst > MaxFstSize
       \/ table_end > size
       \/ n = 0 \/ n > MaxEntries
       \/ fst < EntrySize * n
       \/ \E i \in 1..(n - 1) :
             \/ names_at + e(i).str_start > table_end
             \/ e(i).is_dir /\ (e(i).start >= n \/ e(i).size > n)
             \/ Len(read_until(d, size, names_at + e(i).str_start,
                               MaxNameRead)) = MaxNameRead

LoadTried == pc # "unloaded" \/ out.kind # "none"

\* C21: with the sanity checks on, loading raises DiskError and leaves no
\* instance whenever the magic word is wrong, fs_start is below 0x2440 or
\* above 0x4000000, fst_size is above 0x400000, the table ends after the
\* image, the number of entries is 0 or above 100000, fst_size is below 12
\* times that number, the name offset of an entry is past the end of the
\* table, the parent of a directory is >= the number or its next index
\* above it, or a name runs for 512 bytes with no terminator
C21_LoadRejects ==
    (LoadTried /\ LoadFault(disk, dsize))
    => (out.kind = "raise" /\ out.exc = "DiskError" /\ pc = "unloaded")

\* C24: for every image that passes the checks of _init, build_tree ends:
\* loading never stays in the loop of build_tree
C24_BuildTreeEnds == pc # "build_tree"

\* C22: after a successful write the image is no longer than the largest of
\* the new start of the file data and the ends of the files of the new
\* table; when the new table has no file, as after deleting the only file,
\* the image ends right after the new table
C22_LengthBounded ==
    (Succeeded /\ pre.caller = "write")
    => LET data_start == fs_start + fst_size
           ends == {entries[k].start + entries[k].size :
                       k \in FileEntries(entries)}
       IN /\ dsize <= SetMax({data_start} \cup ends)
          /\ ends = {}
             => dsize = str_start + StrTableSize(names)

C22_Witness ==
    /\ Succeeded /\ pre.caller = "write"
    /\ Len(pre.entries) = 1 /\ entries = << >>
    /\ dsize = fs_start + EntrySize
    /\ dsize < pre.dsize

\* the size of a file of the tree: of the entry for an index or a pair
\* (index, new_start), of the real file for a path
LeafSize(n) ==
    IF tree[n].ref.t = "path"
    THEN (IF exists(rfs, tree[n].ref.i) THEN getsize(rfs, tree[n].ref.i) ELSE 0)
    ELSE entries[tree[n].ref.i + 1].size

AllFiles == SortedSeq({n \in DOMAIN tree : ~tree[n].dir})

\* C23: tree_size(tree, file_size = True) returns the sum of the sizes of
\* all the files of the tree, whether a file is given by an index, by the
\* path of an imported file or by a pair (index, new_start)
C23_TotalFileSize ==
    (pre.set /\ pre.caller = "tree_size")
    => /\ out.kind = "return"
       /\ w.size = SumSeq([k \in 1..Len(AllFiles) |-> LeafSize(AllFiles[k])])

\* C25: after write, the entry of every directory of the tree holds the
\* table index of the directory it is in and, as next index, its own index
\* k plus 1 plus the number of its descendants: k < next <= number of
\* entries, and the entries from k + 1 to next - 1 are its descendants
C25_DirectoryRanges ==
    Succeeded
    => \A n \in DOMAIN pre.tree :
          pre.tree[n].dir
          => LET k == NewId(n)
                 e == entries[k]
                 inside == Descendants(pre.tree, n)
             IN /\ e.is_dir
                /\ e.start = NewId(pre.tree[n].parent)
                /\ e.size = k + 1 + Cardinality(inside)
                /\ k < e.size /\ e.size <= num_entries
                /\ {NewId(m) : m \in inside} = (k + 1)..(e.size - 1)

C25_Witness ==
    /\ Succeeded
    /\ \E n \in DOMAIN pre.tree :
          /\ pre.tree[n].dir
          /\ \E m \in Descendants(pre.tree, n) : pre.tree[m].dir
          /\ entries[NewId(n)].size = NewId(n) + 3

\* C26: after a successful write, the bytes at the new start of every file
\* that the tree kept from the image are the bytes the file had before, the
\* bytes of every imported file are those of its source, and no file lies
\* inside the new table
C26_ContentsKept ==
    (Succeeded /\ pre.caller = "write")
    => \A n \in DOMAIN pre.tree :
          ~pre.tree[n].dir
          => LET e == entries[NewId(n)]
                 ref == pre.tree[n].ref
                 old == pre.entries[ref.i + 1]
                 now == read(disk, dsize, e.start, e.size)
             IN /\ e.size > 0 => e.start >= fs_start + fst_size
                /\ IF ref.t = "path" THEN now = rfs[ref.i].data
                   ELSE now = read(pre.disk, pre.dsize, old.start, old.size)

\* C27: after a successful compress every file of the image has, at its new
\* start, the bytes it had before: no relocation made by _quick_compress
\* is copied over a file that is still to be copied
C27_CompressKeepsContents ==
    (Succeeded /\ pre.caller = "compress")
    => \A k \in FileEntries(pre.entries) :
          \E j \in FileEntries(entries) :
              /\ names[j] = pre.names[k]
              /\ entries[j].size = pre.entries[k].size
              /\ read(disk, dsize, entries[j].start, entries[j].size)
                    = read(pre.disk, pre.dsize, pre.entries[k].start,
                           pre.entries[k].size)

\* the ways in which a write ends when its progress function always returns
\* None: it commits, or it raises the error of an import or of a copy
EndsAsUncancelled ==
    \/ Succeeded
    \/ out.kind = "raise" /\ out.exc \in {"IOError", "ValueError"}

\* C28: write without a progress function (progress = None) runs to its
\* end like write with a function that always returns None, also when the
\* new files are larger than one block of copy
C28_NoCallbackCompletes ==
    (pre.set /\ pre.caller = "write" /\ out.kind # "none"
     /\ "progress" \in DOMAIN w /\ ~w.progress)
    => EndsAsUncancelled

\* C29: write removes only a temporary directory that it made itself: the
\* directory that the caller passed as tmp_dir is still there when write
\* has ended, whether files were moved to temporary storage or not
C29_CallerTmpKept ==
    (pre.set /\ pre.caller = "write" /\ out.kind # "none"
     /\ "tmp_given" \in DOMAIN w /\ w.tmp_given)
    => rfs[CallerTmp].kind = "dir"

\* C30: an action of the journal followed by undo gives back the tree as it
\* was before the action, and changed() answers as it did then; after a
\* delete and its undo on a tree without changes, changed() is False
C30_UndoRestores ==
    (pre.set /\ pre.caller = "undo")
    => /\ tree_value(tree, 0) = tree_value(pre.tree, 0)
       /\ changed(tree, entries, names) = changed(pre.tree, entries, names)
====
